---- MODULE Spec2Model ----
(***************************************************************************)
(* A model of the orchestration layer of the airdrop farming bot:          *)
(*   - FaucetWorker.claim_from_faucet   (modules/faucet_automation.py)     *)
(*   - ActionPipeline.execute_action    (modules/action_pipeline.py)       *)
(*   - FaucetOrchestrator.fund_wallets and ActionPipeline.run_pipeline     *)
(*                                                                         *)
(* Every coroutine is cut at its suspension points (await): the code        *)
(* between two awaits runs atomically under asyncio's cooperative           *)
(* scheduling and is one action here.  Random draws and the answers of the  *)
(* external collaborators are inputs chosen with \E.                        *)
(*                                                                         *)
(* Time is the UTC clock in whole hours; a calendar day is 24 hours.  The   *)
(* clock is observed every TickHours hours.                                 *)
(***************************************************************************)
EXTENDS Integers, Sequences, FiniteSets, TLC

VARIABLES
    command,           \* which CLI command the process runs: "fund" | "actions"
    now,               \* datetime.utcnow(), in hours
    enable_jitter,     \* global_settings['enable_jitter'] of faucets.yaml
    faucet_requests,   \* table faucet_requests: idempotency_key (UNIQUE) -> row
    faucet_cooldowns,  \* table faucet_cooldowns: (faucet, wallet, chain) -> row
    wallet_actions,    \* table wallet_actions: sequence of rows, id = index
    pc,                \* per task: where the coroutine is suspended
    args,              \* per task: the arguments of the running call
    request_id,        \* per task: request_id / action_id local of the call
    result,            \* per task: what the finished call returned
    trace,             \* per task: the checks and calls performed, in order
    last_error,        \* per task: the error the call recorded on its row
    external_calls,    \* history: per work item, external calls issued for it
    shard_stagger,     \* fund_wallets: the shard_stagger argument
    orch_pc,           \* where fund_wallets / run_pipeline is
    shards_left,       \* fund_wallets: the shard ids the loop has yet to visit
    shard_id,          \* fund_wallets: the shard being processed
    unit,              \* per unit of work of the run: its coroutine
    semaphore,         \* the value of the asyncio.Semaphore of the run
    stats,             \* the statistics of the run
    clock,             \* the event loop's clock, in seconds
    wake_at,           \* when the sleep between two shards ends
    shard_log,         \* history: per shard, start, end and requested sleep
    th_now,            \* AutoThrottle: datetime.utcnow(), in seconds
    request_history,   \* AutoThrottle.request_history: identifier -> deque
    paused_identifiers, \* AutoThrottle.paused_identifiers
    th_records,        \* the number of record_request calls made
    th_call,           \* history: the last AutoThrottle call and its result
    th_last,           \* history: per identifier, the last pause it was given
    th_fed,            \* history: per identifier, the observations fed to it
    ip_now,            \* IPManager: datetime.utcnow() and time.time(), in hours
    proxy_list,        \* IPManager.proxy_list
    traffic_type_proxy, \* IPManager.traffic_type_proxy
    shard_to_proxy,    \* IPManager.shard_to_proxy
    ip_call,           \* history: the last IPManager call and its result
    ip_prev,           \* history: per key, when get_proxy_for_wallet was
                       \* last called since the last forced rotation
    ua_now,            \* UserAgentRotator: datetime.utcnow(), in hours
    session_ua,        \* UserAgentRotator.session_ua
    ua_call,           \* history: the last UserAgentRotator call since the
                       \* clock last advanced
    sched_now,         \* SchedulerEntropy: datetime.utcnow(), in hours since
                       \* a Monday 00:00
    off_days,          \* SchedulerEntropy.off_days
    wallet_skip_days,  \* SchedulerEntropy.wallet_skip_days
    lull_windows,      \* SchedulerEntropy.night_lull_windows
    sched_call,        \* history: the last SchedulerEntropy call since the
                       \* clock last advanced
    plan_call,         \* history: the last AntiDetection.get_request_config
                       \* call, until the next outcome or tick of the clock
    fw_config,         \* FaucetConfig.chains: chain -> its list of faucets
    fw_pc,             \* where fund_wallet is
    fw_chains,         \* fund_wallet: the chains from the current one on
    fw_faucets,        \* fund_wallet: faucets, of the current chain
    fw_pos,            \* fund_wallet: the position of faucet_config in faucets
    fw_success,        \* fund_wallet: success
    fw_results,        \* fund_wallet: results
    fw_attempts,       \* history: per chain, the claim_from_faucet calls made
                       \* and their answers
    ac_registry,       \* AirdropRegistry.airdrops: name -> configuration
    ac_claimed,        \* the (wallet, airdrop) pairs with an AirdropClaim row
                       \* of status 'claimed'
    ac_pc,             \* where check_and_claim_airdrops is
    ac_args,           \* check_and_claim_airdrops: airdrop_name, check_only
    ac_airdrops,       \* check_and_claim_airdrops: airdrops_to_check
    ac_wallet,         \* check_and_claim_airdrops: the position of wallet
    ac_airdrop,        \* check_and_claim_airdrops: the position of the airdrop
    ac_stats,          \* check_and_claim_airdrops: stats
    at_config,         \* the AutoThrottle of one configuration: its
                       \* pause_duration_seconds, backoff_multiplier
                       \* and max_pause_duration_seconds
    at_now,            \* that AutoThrottle: datetime.utcnow(), in seconds
    at_paused,         \* that AutoThrottle: paused_identifiers
    at_trigger         \* history: per identifier with a pause entry, when
                       \* _apply_throttle stored it

orchVars == <<shard_stagger, orch_pc, shards_left, shard_id, unit, semaphore,
              stats, clock, wake_at, shard_log>>

workerVars == <<now, enable_jitter, faucet_requests, faucet_cooldowns,
                wallet_actions, pc, args, request_id, result, trace, last_error,
                external_calls>>

throttleVars == <<th_now, request_history, paused_identifiers, th_records,
                  th_call, th_last, th_fed>>

ipVars == <<ip_now, proxy_list, traffic_type_proxy, shard_to_proxy, ip_call,
            ip_prev>>

uaVars == <<ua_now, session_ua, ua_call>>

schedVars == <<sched_now, off_days, wallet_skip_days, lull_windows,
               sched_call>>

\* the components modelled after the throttle and the IP manager
planVars == <<plan_call>>

fundVars == <<fw_config, fw_pc, fw_chains, fw_faucets, fw_pos, fw_success,
              fw_results, fw_attempts>>

airdropVars == <<ac_registry, ac_claimed, ac_pc, ac_args, ac_airdrops,
                 ac_wallet, ac_airdrop, ac_stats>>

backoffVars == <<at_config, at_now, at_paused, at_trigger>>

gateVars == <<uaVars, schedVars, planVars, fundVars, airdropVars, backoffVars>>

policyVars == <<throttleVars, ipVars, gateVars>>

vars == <<command, workerVars, orchVars, policyVars>>

\* what the actions of one component leave alone
notUAVars == <<command, workerVars, orchVars, throttleVars, ipVars, schedVars,
               planVars, fundVars, airdropVars, backoffVars>>

notSchedVars == <<command, workerVars, orchVars, throttleVars, ipVars, uaVars,
                  planVars, fundVars, airdropVars, backoffVars>>

notPlanVars == <<command, workerVars, orchVars, fundVars, airdropVars,
                 backoffVars>>

notFundVars == <<command, workerVars, orchVars, throttleVars, ipVars, uaVars,
                 schedVars, planVars, airdropVars, backoffVars>>

notAirdropVars == <<command, workerVars, orchVars, throttleVars, ipVars,
                    uaVars, schedVars, planVars, fundVars, backoffVars>>

notBackoffVars == <<command, workerVars, orchVars, throttleVars, ipVars,
                    uaVars, schedVars, planVars, fundVars, airdropVars>>

-----------------------------------------------------------------------------
(* Bounds of the model.                                                     *)

\* the clock stops advancing at MaxTime hours
MaxTime == 24

\* the clock advances in steps of TickHours hours
TickHours == 6

\* at most MaxActions rows are inserted into wallet_actions
MaxActions == 2

Tasks == {"t1", "t2"}

Wallets == {"w1"}

Chains == {"c1"}

-----------------------------------------------------------------------------
(* Configuration.                                                           *)

\* OVER_COOLDOWN_JITTER_MIN = 0.1, as a percentage
OverCooldownJitterMinPct == 10

\* OVER_COOLDOWN_JITTER_MAX = 0.3, as a percentage
OverCooldownJitterMaxPct == 30

\* FAUCET_RETRY_MAX_ATTEMPTS
max_retries == 3

\* ACTION_COOLDOWN_HOURS
cooldown_hours == 6

\* the faucets of faucets.yaml: fA keeps the defaults, fB overrides them
Faucets == {"fA", "fB"}

FaucetConfig(f) ==
    IF f = "fA"
    THEN [cooldown_hours |-> 24, daily_limit |-> 1, requires_captcha |-> FALSE,
          method |-> "POST"]
    ELSE [cooldown_hours |-> 6, daily_limit |-> 1, requires_captcha |-> TRUE,
          method |-> "POST"]

\* values random.uniform(jitter_min, jitter_max) can return, as percentages
JitterDraws ==
    {OverCooldownJitterMinPct,
     (OverCooldownJitterMinPct + OverCooldownJitterMaxPct) \div 2,
     OverCooldownJitterMaxPct}

-----------------------------------------------------------------------------
(* Pure helpers.                                                            *)

\* date.strftime("%Y-%m-%d") / datetime.date(): the calendar day of an hour
DayOf(t) == t \div 24

\* the idempotency key: a digest of "faucet:wallet:chain:date"; the digest is
\* collision free on the inputs used here, so the key is the tuple itself
GenerateIdempotencyKey(f, w, c, date) == <<f, w, c, DayOf(date)>>

\* AntiDetection.get_overcooldown_delay, in seconds, jitter as a percentage
GetOvercooldownDelay(base_cooldown_seconds, jitter_pct) ==
    base_cooldown_seconds + (base_cooldown_seconds * jitter_pct) \div 100

\* session.query(FaucetRequest).filter_by(idempotency_key=key).first():
\* whether a row exists (the column is UNIQUE: there is at most one)
ExistingRequest(rows, key) == key \in DOMAIN rows

\* session.add(row); session.commit() on a table with a unique key
Insert(rows, key, row) ==
    [k \in DOMAIN rows \cup {key} |-> IF k = key THEN row ELSE rows[k]]

\* _check_cooldown comparing the wrong column: last_request_at, not cooldown_until
CheckCooldownWrongColumn(cooldowns, f, w, c, hours, t) ==
    IF <<f, w, c>> \notin DOMAIN cooldowns
    THEN <<FALSE, -1>>
    ELSE IF cooldowns[<<f, w, c>>].last_request_at > t
         THEN <<TRUE, cooldowns[<<f, w, c>>].cooldown_until>>
         ELSE <<FALSE, -1>>

\* FaucetWorker._check_cooldown: <<is_in_cooldown, cooldown_expires_at>>;
\* the cooldown_hours argument is accepted and never read
CheckCooldown(cooldowns, f, w, c, hours, t) ==
    IF <<f, w, c>> \notin DOMAIN cooldowns
    THEN <<FALSE, -1>>
    ELSE IF cooldowns[<<f, w, c>>].cooldown_until > t
         THEN <<TRUE, cooldowns[<<f, w, c>>].cooldown_until>>
         ELSE <<FALSE, -1>>

\* FaucetWorker._update_cooldown: the table after a successful claim at t
UpdateCooldown(cooldowns, f, w, c, hours, daily_limit, t) ==
    LET k == <<f, w, c>>
        row == IF k \in DOMAIN cooldowns
               THEN [cooldowns[k] EXCEPT
                        !.requests_today =
                            IF DayOf(cooldowns[k].last_request_at) < DayOf(t)
                            THEN 1 ELSE @ + 1,
                        !.last_request_at = t,
                        !.cooldown_until = t + hours]
               ELSE [last_request_at |-> t, cooldown_until |-> t + hours,
                     requests_today |-> 1, daily_limit |-> daily_limit]
    IN  [x \in DOMAIN cooldowns \cup {k} |-> IF x = k THEN row ELSE cooldowns[x]]

-----------------------------------------------------------------------------
(* The task-local state of a coroutine.                                     *)

\* no arguments: a task outside a call
NoArgs == <<>>

\* no row: the value of request_id / action_id outside a call
NoId == <<>>

\* no error recorded
NoError == "none"

taskVars == <<pc, args, request_id, result, trace, last_error>>

\* the call of task t with arguments a returns r, having recorded error e
\* (NoError when it recorded none)
Finish(t, r, tr, a, e) ==
    /\ pc' = [pc EXCEPT ![t] = "done"]
    /\ result' = [result EXCEPT ![t] = r]
    /\ trace' = [trace EXCEPT ![t] = tr]
    /\ args' = [args EXCEPT ![t] = a]
    /\ request_id' = [request_id EXCEPT ![t] = NoId]
    /\ last_error' = [last_error EXCEPT ![t] = e]

\* task t suspends at `where` (an await), with locals a and id
Suspend(t, where, tr, a, id) ==
    /\ pc' = [pc EXCEPT ![t] = where]
    /\ result' = result
    /\ trace' = [trace EXCEPT ![t] = tr]
    /\ args' = [args EXCEPT ![t] = a]
    /\ request_id' = [request_id EXCEPT ![t] = id]
    /\ last_error' = last_error

\* request.status = s on row id (attempts += 1 when it failed)
SetStatus(rows, id, s) ==
    [rows EXCEPT ![id] = [@ EXCEPT !.status = s,
                                   !.attempts = IF s = "failed" THEN @ + 1 ELSE @]]

-----------------------------------------------------------------------------
(* FaucetWorker.claim_from_faucet                                           *)

\* the checks of claim_from_faucet without the look-up of a request that
\* already succeeded today
ClaimChecksNoLookup(w, f, c, jitter_pct, skip) ==
    LET key == GenerateIdempotencyKey(f, w, c, now)
        existing == ExistingRequest(faucet_requests, key)
        in_cooldown ==
            CheckCooldown(faucet_cooldowns, f, w, c,
                          FaucetConfig(f).cooldown_hours, now)[1]
        tr2 == <<"cooldown">>
        tr3 == Append(tr2, "skip_veto")
    IN  IF in_cooldown
        THEN [outcome |-> "in_cooldown", trace |-> tr2]
        ELSE IF skip
        THEN [outcome |-> "skipped", trace |-> tr3]
        ELSE IF existing
        THEN [outcome |-> "integrity_error", trace |-> tr3]
        ELSE [outcome |-> "inserted", trace |-> tr3]

\* the checks of claim_from_faucet with the skip veto drawn first
ClaimChecksVetoFirst(w, f, c, jitter_pct, skip) ==
    LET key == GenerateIdempotencyKey(f, w, c, now)
        existing == ExistingRequest(faucet_requests, key)
        in_cooldown ==
            CheckCooldown(faucet_cooldowns, f, w, c,
                          FaucetConfig(f).cooldown_hours, now)[1]
        tr1 == <<"skip_veto">>
        tr2 == Append(tr1, "idempotency")
        tr3 == Append(tr2, "cooldown")
    IN  IF skip
        THEN [outcome |-> "skipped", trace |-> tr1]
        ELSE IF existing /\ faucet_requests[key].status = "success"
        THEN [outcome |-> "already_claimed", trace |-> tr2]
        ELSE IF in_cooldown
        THEN [outcome |-> "in_cooldown", trace |-> tr3]
        ELSE IF existing
        THEN [outcome |-> "integrity_error", trace |-> tr3]
        ELSE [outcome |-> "inserted", trace |-> tr3]

\* The pre-execution checks of claim_from_faucet, in the order of the code:
\* the outcome and the checks performed.  `jitter_pct` is the draw of
\* get_overcooldown_delay, `skip` the draw of should_skip_faucet.
ClaimChecks(w, f, c, jitter_pct, skip) ==
    LET key == GenerateIdempotencyKey(f, w, c, now)
        existing == ExistingRequest(faucet_requests, key)
        conf == FaucetConfig(f)
        extended_cooldown_hours ==
            GetOvercooldownDelay(conf.cooldown_hours * 3600, jitter_pct) \div 3600
        in_cooldown ==
            CheckCooldown(faucet_cooldowns, f, w, c, extended_cooldown_hours, now)[1]
        tr1 == <<"idempotency">>
        tr2 == Append(tr1, "cooldown")
        tr3 == Append(tr2, "skip_veto")
    IN  IF existing /\ faucet_requests[key].status = "success"
        THEN [outcome |-> "already_claimed", trace |-> tr1]
        ELSE IF in_cooldown
        THEN [outcome |-> "in_cooldown", trace |-> tr2]
        ELSE IF skip
        THEN [outcome |-> "skipped", trace |-> tr3]
        ELSE IF existing
        \* idempotency_key is UNIQUE: the INSERT raises IntegrityError
        THEN [outcome |-> "integrity_error", trace |-> tr3]
        ELSE [outcome |-> "inserted", trace |-> tr3]

\* claim_from_faucet up to the creation of the request record
ClaimFromFaucet(t, w, f, c, jitter_pct, skip) ==
    /\ command = "fund"
    /\ pc[t] = "idle"
    /\ LET chk == ClaimChecks(w, f, c, jitter_pct, skip)
           key == GenerateIdempotencyKey(f, w, c, now)
       IN  CASE chk.outcome = "already_claimed" ->
                    /\ Finish(t, "true", chk.trace, <<w, f, c>>, NoError)
                    /\ UNCHANGED <<faucet_requests, external_calls>>
             [] chk.outcome \in {"in_cooldown", "skipped"} ->
                    /\ Finish(t, "false", chk.trace, <<w, f, c>>, NoError)
                    /\ UNCHANGED <<faucet_requests, external_calls>>
             [] chk.outcome = "integrity_error" ->
                    /\ Finish(t, "raised", chk.trace, <<w, f, c>>, NoError)
                    /\ UNCHANGED <<faucet_requests, external_calls>>
             [] chk.outcome = "inserted" ->
                    /\ faucet_requests' =
                          Insert(faucet_requests, key,
                                 [status |-> "in_progress", attempts |-> 0])
                    /\ external_calls' = Insert(external_calls, key, 0)
                    /\ Suspend(t, "attempt", chk.trace, <<w, f, c>>, key)
    /\ UNCHANGED <<policyVars, orchVars, command, now, enable_jitter, faucet_cooldowns, wallet_actions>>

\* an except branch that returns False and leaves the request as it is
RecordFailureKeepsStatus(t, e) ==
    /\ faucet_requests' = faucet_requests
    /\ Finish(t, "false", trace[t], args[t], e)

\* the except branch of claim_from_faucet: the request is recorded as failed
\* with the error e
RecordFailure(t, e) ==
    /\ faucet_requests' = SetStatus(faucet_requests, request_id[t], "failed")
    /\ Finish(t, "false", trace[t], args[t], e)

\* the HTTP request of task t goes out
Send(t) ==
    /\ Suspend(t, "http", Append(trace[t], "call"), args[t], request_id[t])
    /\ external_calls' = [external_calls EXCEPT ![request_id[t]] = @ + 1]

\* The attempt before the HTTP request: the captcha, then _make_faucet_request
\* up to its first await.  `captcha_token` is whether the broker returned a
\* token, `plan` what get_request_config answered.
AttemptClaim(t, captcha_token, plan) ==
    /\ command = "fund"
    /\ pc[t] = "attempt"
    /\ LET conf == FaucetConfig(args[t][2])
       IN  IF conf.requires_captcha /\ ~captcha_token
           THEN RecordFailure(t, "captcha") /\ UNCHANGED external_calls
           ELSE IF conf.method = "CLI"
           THEN RecordFailure(t, "request_failed") /\ UNCHANGED external_calls
           ELSE IF plan = "blocked"
           \* should_proceed is false and delay_seconds is 0
           THEN RecordFailure(t, "request_failed") /\ UNCHANGED external_calls
           ELSE IF plan = "paused"
           \* should_proceed is false and delay_seconds > 0: sleep first
           THEN /\ Suspend(t, "deferred_sleep", trace[t], args[t], request_id[t])
                /\ UNCHANGED <<faucet_requests, external_calls>>
           ELSE IF enable_jitter
           THEN /\ Suspend(t, "jitter_sleep", Append(trace[t], "delay"),
                           args[t], request_id[t])
                /\ UNCHANGED <<faucet_requests, external_calls>>
           ELSE Send(t) /\ UNCHANGED faucet_requests
    /\ UNCHANGED <<policyVars, orchVars, command, now, enable_jitter, faucet_cooldowns, wallet_actions>>

\* the sleep of a deferred request is over: _make_faucet_request returns False
DeferredDone(t) ==
    /\ command = "fund"
    /\ pc[t] = "deferred_sleep"
    /\ RecordFailure(t, "request_failed")
    /\ UNCHANGED <<policyVars, orchVars, command, now, enable_jitter, faucet_cooldowns, wallet_actions,
                   external_calls>>

\* the jitter sleep is over: the HTTP request is sent
SendRequest(t) ==
    /\ command = "fund"
    /\ pc[t] = "jitter_sleep"
    /\ Send(t)
    /\ UNCHANGED <<policyVars, orchVars, command, now, enable_jitter, faucet_requests, faucet_cooldowns,
                   wallet_actions>>

\* what the HTTP exchange can end with: a 200/201, a 429, a 5xx, another
\* 4xx, another status, or an aiohttp.ClientError / timeout
Responses ==
    {"ok", "rate_limited", "server_error", "client_error", "other", "network_error"}

\* the error claim_from_faucet records for a response: a 429, a 5xx and
\* another 4xx raise their own message; another status and a ClientError
\* make _make_faucet_request return False ("Faucet request failed")
ErrorOf(response) ==
    IF response \in {"rate_limited", "server_error", "client_error"}
    THEN response
    ELSE "request_failed"

\* the response handling with _update_cooldown called on every response
FaucetResponseCooldownAlways(t, response) ==
    /\ command = "fund"
    /\ pc[t] = "http"
    /\ LET conf == FaucetConfig(args[t][2])
       IN  /\ faucet_cooldowns' =
                 UpdateCooldown(faucet_cooldowns, args[t][2], args[t][1], args[t][3],
                                conf.cooldown_hours, conf.daily_limit, now)
           /\ IF response = "ok"
              THEN /\ faucet_requests' =
                         SetStatus(faucet_requests, request_id[t], "success")
                   /\ Finish(t, "true", trace[t], args[t], NoError)
              ELSE RecordFailure(t, ErrorOf(response))
    /\ UNCHANGED <<policyVars, orchVars, command, now, enable_jitter, wallet_actions, external_calls>>

\* the response arrives: _handle_faucet_response and the rest of the claim
FaucetResponse(t, response) ==
    /\ command = "fund"
    /\ pc[t] = "http"
    /\ LET w == args[t][1]
           f == args[t][2]
           c == args[t][3]
           conf == FaucetConfig(f)
       IN  IF response = "ok"
           THEN /\ faucet_requests' =
                      SetStatus(faucet_requests, request_id[t], "success")
                /\ faucet_cooldowns' =
                      UpdateCooldown(faucet_cooldowns, f, w, c,
                                     conf.cooldown_hours, conf.daily_limit, now)
                /\ Finish(t, "true", trace[t], args[t], NoError)
           ELSE /\ RecordFailure(t, ErrorOf(response))
                /\ UNCHANGED faucet_cooldowns
    /\ UNCHANGED <<policyVars, orchVars, command, now, enable_jitter, wallet_actions, external_calls>>

-----------------------------------------------------------------------------
(* ActionPipeline.execute_action                                            *)

\* action types callers pass: swap is dispatched to the adapter,
\* any other type (here "claim") reaches the ValueError branch
ActionTypes == {"swap", "claim"}

\* chains callers pass, and those self.adapters has an adapter for
ActionChains == {"c1", "c2"}

Adapters == {"c1"}

\* ActionPipeline._check_cooldown: a successful action of this wallet and
\* type was executed less than cooldown_hours ago
ActionInCooldown(rows, w, action_type, t) ==
    \E i \in 1..Len(rows) :
        /\ rows[i].wallet_id = w
        /\ rows[i].action_type = action_type
        /\ rows[i].executed_at > t - cooldown_hours
        /\ rows[i].status = "success"

\* The pre-execution checks of execute_action, in the order of the code.
\* `skip` is the draw of should_skip_action.
ActionChecks(w, action_type, chain, skip) ==
    LET tr1 == <<"skip_veto">>
        tr2 == Append(tr1, "cooldown")
    IN  IF skip
        THEN [outcome |-> "skipped", trace |-> tr1]
        ELSE IF chain \notin Adapters
        THEN [outcome |-> "no_adapter", trace |-> tr1]
        ELSE IF ActionInCooldown(wallet_actions, w, action_type, now)
        THEN [outcome |-> "in_cooldown", trace |-> tr2]
        ELSE [outcome |-> "inserted", trace |-> tr2]

\* execute_action up to the sleep before the execution
ExecuteAction(t, w, action_type, chain, skip) ==
    /\ command = "actions"
    /\ pc[t] = "idle"
    /\ LET chk == ActionChecks(w, action_type, chain, skip)
       IN  IF chk.outcome = "inserted"
           THEN /\ Len(wallet_actions) < MaxActions
                /\ wallet_actions' =
                      Append(wallet_actions,
                             [wallet_id |-> w, action_type |-> action_type,
                              status |-> "pending", executed_at |-> -1,
                              attempts |-> 0, result |-> "none"])
                /\ external_calls' =
                      Insert(external_calls, Len(wallet_actions) + 1, 0)
                /\ Suspend(t, "human_delay", Append(chk.trace, "delay"),
                           <<w, action_type, chain>>, Len(wallet_actions) + 1)
           ELSE /\ Finish(t, "false", chk.trace, <<w, action_type, chain>>, NoError)
                /\ UNCHANGED <<wallet_actions, external_calls>>
    /\ UNCHANGED <<policyVars, orchVars, command, now, enable_jitter, faucet_requests, faucet_cooldowns>>

\* the start of the execution without the in_progress marker
BeginActionNoMarker(t) ==
    /\ command = "actions"
    /\ pc[t] = "human_delay"
    /\ wallet_actions' =
          [wallet_actions EXCEPT ![request_id[t]] = [@ EXCEPT !.executed_at = now]]
    /\ Suspend(t, "dispatch", trace[t], args[t], request_id[t])
    /\ UNCHANGED <<policyVars, orchVars, command, now, enable_jitter, faucet_requests, faucet_cooldowns,
                   external_calls>>

\* the delay is over: the action is marked in_progress
BeginAction(t) ==
    /\ command = "actions"
    /\ pc[t] = "human_delay"
    /\ wallet_actions' =
          [wallet_actions EXCEPT ![request_id[t]] =
              [@ EXCEPT !.status = "in_progress", !.executed_at = now]]
    /\ Suspend(t, "dispatch", trace[t], args[t], request_id[t])
    /\ UNCHANGED <<policyVars, orchVars, command, now, enable_jitter, faucet_requests, faucet_cooldowns,
                   external_calls>>

\* the action is handed to the adapter; a type the pipeline does not know
\* raises ValueError, which the except branch records
DispatchAction(t) ==
    /\ command = "actions"
    /\ pc[t] = "dispatch"
    /\ IF args[t][2] \in {"stake", "swap", "bridge"}
       THEN /\ external_calls' = [external_calls EXCEPT ![request_id[t]] = @ + 1]
            /\ Suspend(t, "adapter", Append(trace[t], "call"), args[t], request_id[t])
            /\ UNCHANGED wallet_actions
       ELSE /\ wallet_actions' = SetStatus(wallet_actions, request_id[t], "failed")
            /\ Finish(t, "false", trace[t], args[t], "value_error")
            /\ UNCHANGED external_calls
    /\ UNCHANGED <<policyVars, orchVars, command, now, enable_jitter, faucet_requests, faucet_cooldowns>>

\* what the adapter call can end with: a result record that reports
\* success, a result record that reports failure, or an exception
AdapterOutcomes == {"result_success", "result_failure", "raised"}

\* action.result = str(result) on row id
SetResult(rows, id, r) == [rows EXCEPT ![id] = [@ EXCEPT !.result = r]]

\* the adapter call is over: whatever result record the adapter returned,
\* the action is recorded as successful with that record
AdapterReturn(t, outcome) ==
    /\ command = "actions"
    /\ pc[t] = "adapter"
    /\ IF outcome = "raised"
       THEN /\ wallet_actions' = SetStatus(wallet_actions, request_id[t], "failed")
            /\ Finish(t, "false", trace[t], args[t], "adapter_error")
       ELSE /\ wallet_actions' =
                   SetResult(SetStatus(wallet_actions, request_id[t], "success"),
                             request_id[t], outcome)
            /\ Finish(t, "true", trace[t], args[t], NoError)
    /\ UNCHANGED <<policyVars, orchVars, command, now, enable_jitter, faucet_requests, faucet_cooldowns,
                   external_calls>>

-----------------------------------------------------------------------------
(* The environment of the calls.                                            *)

\* the caller takes the result; the task can make another call
Return(t) ==
    /\ pc[t] = "done"
    /\ pc' = [pc EXCEPT ![t] = "idle"]
    /\ result' = [result EXCEPT ![t] = "none"]
    /\ trace' = [trace EXCEPT ![t] = <<>>]
    /\ args' = [args EXCEPT ![t] = NoArgs]
    /\ last_error' = [last_error EXCEPT ![t] = NoError]
    /\ UNCHANGED <<policyVars, orchVars, command, now, enable_jitter, faucet_requests, faucet_cooldowns,
                   wallet_actions, request_id, external_calls>>

\* TickHours hours pass
Tick ==
    /\ now + TickHours <= MaxTime
    /\ now' = now + TickHours
    /\ UNCHANGED <<policyVars, orchVars, command, enable_jitter, faucet_requests, faucet_cooldowns,
                   wallet_actions, taskVars, external_calls>>

-----------------------------------------------------------------------------

\* no call of claim_from_faucet / execute_action, empty tables
InitWorkerVars ==
    /\ now = 0
    /\ enable_jitter = TRUE
    /\ faucet_requests = <<>>
    /\ faucet_cooldowns = <<>>
    /\ wallet_actions = <<>>
    /\ pc = [t \in Tasks |-> "idle"]
    /\ args = [t \in Tasks |-> NoArgs]
    /\ request_id = [t \in Tasks |-> NoId]
    /\ result = [t \in Tasks |-> "none"]
    /\ trace = [t \in Tasks |-> <<>>]
    /\ last_error = [t \in Tasks |-> NoError]
    /\ external_calls = <<>>

\* no run of fund_wallets / run_pipeline
InitOrchVars ==
    /\ shard_stagger = TRUE
    /\ orch_pc = "init"
    /\ shards_left = <<>>
    /\ shard_id = -1
    /\ unit = <<>>
    /\ semaphore = 0
    /\ stats = <<>>
    /\ clock = 0
    /\ wake_at = 0
    /\ shard_log = <<>>

\* an AutoThrottle that has seen no request
InitThrottleVars ==
    /\ th_now = 0
    /\ request_history = <<>>
    /\ paused_identifiers = <<>>
    /\ th_records = 0
    /\ th_call = [op |-> "none"]
    /\ th_last = <<>>
    /\ th_fed = <<>>

\* an IPManager without proxies that has assigned nothing
InitIPVars ==
    /\ ip_now = 0
    /\ proxy_list = <<>>
    /\ traffic_type_proxy = <<>>
    /\ shard_to_proxy = <<>>
    /\ ip_call = [op |-> "none"]
    /\ ip_prev = <<>>

\* a UserAgentRotator that has assigned nothing
InitUAVars ==
    /\ ua_now = 0
    /\ session_ua = <<>>
    /\ ua_call = [op |-> "none"]

\* a SchedulerEntropy without off-days and skip-days
InitSchedVars ==
    /\ sched_now = 0
    /\ off_days = {}
    /\ wallet_skip_days = <<>>
    /\ lull_windows = {<<0, 6>>, <<22, 24>>}   \* the constructor's default
    /\ sched_call = [op |-> "none"]

\* no request plan was asked for yet
InitPlanVars == plan_call = [op |-> "none"]

\* a FaucetOrchestrator without faucets whose fund_wallet was not called
InitFundVars ==
    /\ fw_config = <<>>
    /\ fw_pc = "init"
    /\ fw_chains = <<>>
    /\ fw_faucets = <<>>
    /\ fw_pos = 0
    /\ fw_success = FALSE
    /\ fw_results = <<>>
    /\ fw_attempts = <<>>

\* an AirdropClaimer without airdrops whose check_and_claim_airdrops was
\* not called
InitAirdropVars ==
    /\ ac_registry = <<>>
    /\ ac_claimed = {}
    /\ ac_pc = "init"
    /\ ac_args = <<>>
    /\ ac_airdrops = <<>>
    /\ ac_wallet = 0
    /\ ac_airdrop = 0
    /\ ac_stats = <<>>

\* an AutoThrottle of the default configuration that has paused nothing
InitBackoffVars ==
    /\ at_config = [pause_duration_seconds |-> 600,
                    backoff_multiplier |-> 20,
                    max_pause_duration_seconds |-> 3600]
    /\ at_now = 0
    /\ at_paused = <<>>
    /\ at_trigger = <<>>

InitGateVars ==
    /\ InitUAVars
    /\ InitSchedVars
    /\ InitPlanVars
    /\ InitFundVars
    /\ InitAirdropVars
    /\ InitBackoffVars

\* the policy components before their first call
InitPolicyVars == InitThrottleVars /\ InitIPVars /\ InitGateVars

Init ==
    /\ command \in {"fund", "actions"}
    /\ InitOrchVars
    /\ InitPolicyVars
    /\ now = 0
    /\ enable_jitter \in BOOLEAN
    /\ faucet_requests = <<>>
    /\ faucet_cooldowns = <<>>
    /\ wallet_actions = <<>>
    /\ pc = [t \in Tasks |-> "idle"]
    /\ args = [t \in Tasks |-> NoArgs]
    /\ request_id = [t \in Tasks |-> NoId]
    /\ result = [t \in Tasks |-> "none"]
    /\ trace = [t \in Tasks |-> <<>>]
    /\ last_error = [t \in Tasks |-> NoError]
    /\ external_calls = <<>>

Next ==
    \/ \E t \in Tasks, w \in Wallets, f \in Faucets, c \in Chains,
          jitter_pct \in JitterDraws, skip \in BOOLEAN :
            ClaimFromFaucet(t, w, f, c, jitter_pct, skip)
    \/ \E t \in Tasks, captcha_token \in BOOLEAN,
          plan \in {"proceed", "blocked", "paused"} :
            AttemptClaim(t, captcha_token, plan)
    \/ \E t \in Tasks : DeferredDone(t)
    \/ \E t \in Tasks : SendRequest(t)
    \/ \E t \in Tasks, response \in Responses : FaucetResponse(t, response)
    \/ \E t \in Tasks, w \in Wallets, action_type \in ActionTypes,
          chain \in ActionChains, skip \in BOOLEAN :
            ExecuteAction(t, w, action_type, chain, skip)
    \/ \E t \in Tasks : BeginAction(t)
    \/ \E t \in Tasks : DispatchAction(t)
    \/ \E t \in Tasks, outcome \in AdapterOutcomes : AdapterReturn(t, outcome)
    \/ \E t \in Tasks : Return(t)
    \/ Tick

Spec == Init /\ [][Next]_vars

\* what task t does when the await it is suspended at returns: the captcha
\* broker, a sleep, the HTTP exchange, the adapter call
Resume(t) ==
    \/ \E captcha_token \in BOOLEAN, plan \in {"proceed", "blocked", "paused"} :
            AttemptClaim(t, captcha_token, plan)
    \/ DeferredDone(t)
    \/ SendRequest(t)
    \/ \E response \in Responses : FaucetResponse(t, response)
    \/ BeginAction(t)
    \/ DispatchAction(t)
    \/ \E outcome \in AdapterOutcomes : AdapterReturn(t, outcome)

\* every await of a call that was started returns and the coroutine is
\* resumed (the event loop runs every ready task; nothing is cancelled)
SpecFair == Spec /\ \A t \in Tasks : WF_vars(Resume(t))

-----------------------------------------------------------------------------
(* claim_from_faucet over more than one calendar day.                       *)

\* the clock of the runs over several days stops at MaxDailyTime hours
MaxDailyTime == 36

\* TickHours hours pass, on a clock that covers the day after the first
TickDaily ==
    /\ now + TickHours <= MaxDailyTime
    /\ now' = now + TickHours
    /\ UNCHANGED <<policyVars, orchVars, command, enable_jitter, faucet_requests, faucet_cooldowns,
                   wallet_actions, taskVars, external_calls>>

\* a fund-wallets run, empty tables
InitDaily ==
    /\ command = "fund"
    /\ InitOrchVars
    /\ InitPolicyVars
    /\ InitWorkerVars

NextDaily ==
    \/ \E t \in Tasks, w \in Wallets, f \in Faucets, c \in Chains,
          jitter_pct \in JitterDraws, skip \in BOOLEAN :
            ClaimFromFaucet(t, w, f, c, jitter_pct, skip)
    \/ \E t \in Tasks, captcha_token \in BOOLEAN,
          plan \in {"proceed", "blocked", "paused"} :
            AttemptClaim(t, captcha_token, plan)
    \/ \E t \in Tasks : DeferredDone(t)
    \/ \E t \in Tasks : SendRequest(t)
    \/ \E t \in Tasks, response \in Responses : FaucetResponse(t, response)
    \/ \E t \in Tasks : Return(t)
    \/ TickDaily

SpecDaily == InitDaily /\ [][NextDaily]_vars

-----------------------------------------------------------------------------
(* claim_from_faucet called by different processes (two fund-wallets runs   *)
(* on one database).  Inside one event loop the call runs without           *)
(* suspending up to its first await, after the insert; between processes    *)
(* each database session is a step of its own: the look-up of the day's     *)
(* request, the cooldown check, and the insert.                             *)

\* an insert that never meets the UNIQUE constraint
UniqueViolationNever(rows, key) == FALSE

\* idempotency_key = Column(String(255), unique=True): the commit of a
\* second row with the key raises IntegrityError
UniqueViolation(rows, key) == key \in DOMAIN rows

\* the look-up of the request of the day: a request that succeeded ends the
\* call with True
LookUpRequest(t, w, f, c) ==
    /\ command = "fund"
    /\ pc[t] = "idle"
    /\ LET key == GenerateIdempotencyKey(f, w, c, now)
       IN  IF /\ ExistingRequest(faucet_requests, key)
              /\ faucet_requests[key].status = "success"
           THEN Finish(t, "true", <<"idempotency">>, <<w, f, c>>, NoError)
           ELSE Suspend(t, "cooldown_check", <<"idempotency">>, <<w, f, c>>,
                        key)
    /\ UNCHANGED <<policyVars, orchVars, command, now, enable_jitter,
                   faucet_requests, faucet_cooldowns, wallet_actions,
                   external_calls>>

\* the cooldown check and the skip veto
CooldownCheck(t, jitter_pct, skip) ==
    /\ command = "fund"
    /\ pc[t] = "cooldown_check"
    /\ LET w == args[t][1]
           f == args[t][2]
           c == args[t][3]
           extended_cooldown_hours ==
               GetOvercooldownDelay(FaucetConfig(f).cooldown_hours * 3600,
                                    jitter_pct) \div 3600
           in_cooldown ==
               CheckCooldown(faucet_cooldowns, f, w, c,
                             extended_cooldown_hours, now)[1]
       IN  IF in_cooldown
           THEN Finish(t, "false", Append(trace[t], "cooldown"), args[t],
                       NoError)
           ELSE IF skip
           THEN Finish(t, "false",
                       Append(Append(trace[t], "cooldown"), "skip_veto"),
                       args[t], NoError)
           ELSE Suspend(t, "insert",
                        Append(Append(trace[t], "cooldown"), "skip_veto"),
                        args[t], request_id[t])
    /\ UNCHANGED <<policyVars, orchVars, command, now, enable_jitter,
                   faucet_requests, faucet_cooldowns, wallet_actions,
                   external_calls>>

\* the insert of the request record: the call goes on to the attempt, or
\* the commit raises and the exception leaves claim_from_faucet
InsertRequest(t) ==
    /\ command = "fund"
    /\ pc[t] = "insert"
    /\ IF UniqueViolation(faucet_requests, request_id[t])
       THEN /\ Finish(t, "raised", trace[t], args[t], NoError)
            /\ UNCHANGED <<faucet_requests, external_calls>>
       ELSE /\ faucet_requests' =
                   Insert(faucet_requests, request_id[t],
                          [status |-> "in_progress", attempts |-> 0])
            /\ external_calls' =
                   Insert(external_calls, request_id[t],
                          IF request_id[t] \in DOMAIN external_calls
                          THEN external_calls[request_id[t]] ELSE 0)
            /\ Suspend(t, "attempt", trace[t], args[t], request_id[t])
    /\ UNCHANGED <<policyVars, orchVars, command, now, enable_jitter,
                   faucet_cooldowns, wallet_actions>>

InitProcesses ==
    /\ command = "fund"
    /\ InitOrchVars
    /\ InitPolicyVars
    /\ now = 0
    /\ enable_jitter \in BOOLEAN
    /\ faucet_requests = <<>>
    /\ faucet_cooldowns = <<>>
    /\ wallet_actions = <<>>
    /\ pc = [t \in Tasks |-> "idle"]
    /\ args = [t \in Tasks |-> NoArgs]
    /\ request_id = [t \in Tasks |-> NoId]
    /\ result = [t \in Tasks |-> "none"]
    /\ trace = [t \in Tasks |-> <<>>]
    /\ last_error = [t \in Tasks |-> NoError]
    /\ external_calls = <<>>

NextProcesses ==
    \/ \E t \in Tasks, w \in Wallets, f \in Faucets, c \in Chains :
            LookUpRequest(t, w, f, c)
    \/ \E t \in Tasks, jitter_pct \in JitterDraws, skip \in BOOLEAN :
            CooldownCheck(t, jitter_pct, skip)
    \/ \E t \in Tasks : InsertRequest(t)
    \/ \E t \in Tasks, captcha_token \in BOOLEAN,
          plan \in {"proceed", "blocked", "paused"} :
            AttemptClaim(t, captcha_token, plan)
    \/ \E t \in Tasks : DeferredDone(t)
    \/ \E t \in Tasks : SendRequest(t)
    \/ \E t \in Tasks, response \in Responses : FaucetResponse(t, response)
    \/ \E t \in Tasks : Return(t)
    \/ Tick

SpecProcesses == InitProcesses /\ [][NextProcesses]_vars

-----------------------------------------------------------------------------
(* FaucetOrchestrator.fund_wallets and ActionPipeline.run_pipeline.         *)
(*                                                                         *)
(* A unit of work is one coroutine handed to asyncio.gather: one wallet of  *)
(* the shard for fund_wallets, one (wallet, action) pair for run_pipeline.  *)
(* What claim_from_faucet / execute_action answer to a unit is an input     *)
(* here; their own steps are the actions of Spec.                           *)

\* outside a sleep the clock of a run is observed up to MaxClock seconds
MaxClock == 6

\* FAUCET_WORKER_CONCURRENCY / the concurrency argument of run_pipeline
concurrency == 2

\* STAGGER_REQUESTS_SECONDS
stagger_seconds == 5

\* the wallets argument of fund_wallets, in the order given
FundedWallets == <<"w5", "w1", "w2", "w3", "w4">>

\* wallet.shard_id
ShardIdOf(w) ==
    CASE w \in {"w1", "w2", "w3"} -> 0
      [] w = "w4" -> 1
      [] OTHER -> 2

\* config.get_chain_faucets(chain) of the one chain funded, by priority
ChainFaucets == <<"fA", "fB">>

\* the wallets and actions arguments of run_pipeline
PipelineWallets == <<"w1", "w2">>

PipelineActions ==
    <<[type |-> "stake", chain |-> "c1"], [type |-> "swap", chain |-> "c1"],
      [type |-> "bridge", chain |-> "c1"]>>

\* ENABLE_STAKING, ENABLE_SWAPPING are set, ENABLE_BRIDGING is not
EnabledTypes == {"stake", "swap"}

\* values random.uniform(0, stagger_seconds * 0.3) can return, whole seconds
StaggerJitterDraws == 0..((stagger_seconds * 3) \div 10)

\* the units of work of the run
Units ==
    IF command = "fund"
    THEN {FundedWallets[i] : i \in DOMAIN FundedWallets}
    ELSE {<<PipelineWallets[i], j>> :
             i \in DOMAIN PipelineWallets, j \in DOMAIN PipelineActions}

\* a coroutine not yet created
NoUnit == [st |-> "none", pos |-> 0, res |-> "none", why |-> "none"]

\* a coroutine created and not yet inside the semaphore
WaitingUnit == [st |-> "waiting", pos |-> 0, res |-> "none", why |-> "none"]

\* what claim_from_faucet can answer: True after a request that succeeded or
\* for a request that already succeeded today; False in cooldown, on the
\* skip veto or after a failed request; or it raises (a second insert of the
\* day's idempotency key)
ClaimOutcomes ==
    {"claimed", "already_claimed", "in_cooldown", "vetoed", "failed", "raised"}

\* the answers that are True
ClaimSucceeded == {"claimed", "already_claimed"}

\* the answers given without attempting the request
ClaimSkipped == {"already_claimed", "in_cooldown", "vetoed"}

\* how execute_action can end before its first await: False on the skip
\* veto, without an adapter or in cooldown, or an exception of the insert of
\* the action record, which is outside the try block
EarlyOutcomes == {"vetoed", "no_adapter", "in_cooldown", "raised"}

\* how execute_action can end after it suspended: True, False, or an
\* exception of the status update in its except block
LateOutcomes == {"true", "false", "raised"}

\* the wallets of ws that belong to shard s, in the order of ws
RECURSIVE WalletsOfShard(_, _)
WalletsOfShard(ws, s) ==
    IF ws = <<>>
    THEN <<>>
    ELSE IF ShardIdOf(Head(ws)) = s
         THEN <<Head(ws)>> \o WalletsOfShard(Tail(ws), s)
         ELSE WalletsOfShard(Tail(ws), s)

\* the shards dict of fund_wallets: shard id -> wallets
GroupByShard(ws, stagger) ==
    IF stagger
    THEN [s \in {ShardIdOf(ws[i]) : i \in DOMAIN ws} |-> WalletsOfShard(ws, s)]
    ELSE [s \in {0} |-> ws]

\* sorted(): the members of a set of integers, ascending
RECURSIVE Sorted(_)
Sorted(S) ==
    IF S = {}
    THEN <<>>
    ELSE LET m == CHOOSE x \in S : \A y \in S : x <= y
         IN  <<m>> \o Sorted(S \ {m})

\* the keys of the shards dict in insertion order
RECURSIVE KeysAsInserted(_)
KeysAsInserted(ws) ==
    IF ws = <<>>
    THEN <<>>
    ELSE LET rest == KeysAsInserted(SubSeq(ws, 1, Len(ws) - 1))
             s == ShardIdOf(ws[Len(ws)])
         IN  IF \E i \in DOMAIN rest : rest[i] = s THEN rest ELSE Append(rest, s)

\* the loop visiting the shards as items() yields them, without sorted()
ShardOrderAsInserted(ws, shards) ==
    SelectSeq(KeysAsInserted(ws), LAMBDA s : s \in DOMAIN shards)

\* for shard_id, shard_wallets in sorted(shards.items())
ShardOrder(ws, shards) == Sorted(DOMAIN shards)

\* max(shards.keys())
MaxKey(shards) == CHOOSE x \in DOMAIN shards : \A y \in DOMAIN shards : y <= x

\* the shards of this run
Shards == GroupByShard(FundedWallets, shard_stagger)

\* the members of sequence s
Members(s) == {s[i] : i \in DOMAIN s}

\* a semaphore that lets everyone in
CanAcquireAlways(value) == TRUE

\* asyncio.Semaphore: acquire() returns at once iff the value is positive,
\* and the caller waits otherwise
CanAcquire(value) == value > 0

\* the body of the shard loop up to the gather: a new semaphore and one
\* task per wallet of the shard
ProcessShard(order, log, units) ==
    /\ shard_id' = Head(order)
    /\ shards_left' = Tail(order)
    /\ semaphore' = concurrency
    /\ unit' = [u \in DOMAIN units |->
                   IF u \in Members(Shards[Head(order)])
                   THEN WaitingUnit
                   ELSE units[u]]
    /\ shard_log' = [log EXCEPT ![Head(order)].started_at = clock]
    /\ orch_pc' = "gather"

\* fund_wallets up to its first gather
FundWallets ==
    /\ command = "fund"
    /\ orch_pc = "init"
    /\ stats' = [total |-> Len(FundedWallets), success |-> 0, failed |-> 0]
    /\ ProcessShard(ShardOrder(FundedWallets, Shards),
                    [s \in DOMAIN Shards |->
                        [started_at |-> -1, finished_at |-> -1, sleep |-> -1,
                         skips |-> 0]],
                    unit)
    /\ UNCHANGED <<policyVars, command, workerVars, shard_stagger, clock, wake_at>>

\* fund_with_semaphore entering the semaphore and fund_wallet calling the
\* first faucet of the chain
FundWithSemaphore(u) ==
    /\ command = "fund"
    /\ orch_pc = "gather"
    /\ unit[u].st = "waiting"
    /\ CanAcquire(semaphore)
    /\ semaphore' = semaphore - 1
    /\ unit' = [unit EXCEPT ![u] = [st |-> "running", pos |-> 1, res |-> "none",
                                    why |-> "none"]]
    /\ UNCHANGED <<policyVars, command, workerVars, shard_stagger, orch_pc, shards_left,
                   shard_id, stats, clock, wake_at, shard_log>>

\* claim_from_faucet answering fund_wallet: a success ends the faucet loop,
\* a False or an exception moves on to the next faucet; after the loop the
\* unit returns its result and leaves the semaphore
ClaimReturned(u, outcome) ==
    /\ command = "fund"
    /\ unit[u].st = "running"
    /\ LET why == IF outcome \in ClaimSkipped /\ unit[u].why # "executed"
                  THEN "skipped"
                  ELSE "executed"
       IN  IF outcome \in ClaimSucceeded
           THEN /\ unit' = [unit EXCEPT ![u] =
                               [st |-> "finished", pos |-> 0, res |-> "true",
                                why |-> IF outcome \in ClaimSkipped
                                        THEN "skipped" ELSE "executed"]]
                /\ semaphore' = semaphore + 1
           ELSE IF unit[u].pos < Len(ChainFaucets)
                THEN /\ unit' = [unit EXCEPT ![u].pos = @ + 1, ![u].why = why]
                     /\ UNCHANGED semaphore
                ELSE /\ unit' = [unit EXCEPT ![u] =
                                    [st |-> "finished", pos |-> 0,
                                     res |-> "false", why |-> why]]
                     /\ semaphore' = semaphore + 1
    /\ UNCHANGED <<policyVars, command, workerVars, shard_stagger, orch_pc, shards_left,
                   shard_id, stats, clock, wake_at, shard_log>>

\* the number of units of the shard that returned r
Returned(s, r) ==
    Cardinality({u \in Members(Shards[s]) : unit[u].res = r})

\* the number of units of the shard that made no request: every answer
\* they got was given without attempting one
Skips(s) ==
    Cardinality({u \in Members(Shards[s]) : unit[u].why = "skipped"})

\* a coroutine whose result has been consumed
FinishedUnit == [st |-> "finished", pos |-> 0, res |-> "none", why |-> "none"]

\* the gather of the shard returning: the results are aggregated and
\* dropped, and the loop sleeps before the next shard, visits it at once,
\* or ends
GatherShard(jitter) ==
    /\ command = "fund"
    /\ orch_pc = "gather"
    /\ \A u \in Members(Shards[shard_id]) : unit[u].st = "finished"
    /\ stats' = [stats EXCEPT !.success = @ + Returned(shard_id, "true"),
                              !.failed = @ + Returned(shard_id, "false")
                                             + Returned(shard_id, "raised")]
    /\ LET log == [shard_log EXCEPT ![shard_id].finished_at = clock,
                                    ![shard_id].skips = Skips(shard_id)]
           units == [u \in DOMAIN unit |->
                        IF u \in Members(Shards[shard_id])
                        THEN FinishedUnit
                        ELSE unit[u]]
       IN  IF shard_stagger /\ shard_id < MaxKey(Shards)
           THEN /\ wake_at' = clock + stagger_seconds + jitter
                /\ shard_log' = [log EXCEPT ![shard_id].sleep =
                                                 stagger_seconds + jitter]
                /\ orch_pc' = "stagger"
                /\ unit' = units
                /\ UNCHANGED <<shards_left, shard_id, semaphore>>
           ELSE IF shards_left = <<>>
                THEN /\ orch_pc' = "done"
                     /\ shard_log' = log
                     /\ unit' = units
                     /\ UNCHANGED <<shards_left, shard_id, semaphore, wake_at>>
                ELSE /\ ProcessShard(shards_left, log, units)
                     /\ UNCHANGED wake_at
    /\ UNCHANGED <<policyVars, command, workerVars, shard_stagger, clock>>

\* the sleep between two shards is over: the loop visits the next shard
WakeUp ==
    /\ command = "fund"
    /\ orch_pc = "stagger"
    /\ clock >= wake_at
    /\ IF shards_left = <<>>
       THEN /\ orch_pc' = "done"
            /\ UNCHANGED <<shards_left, shard_id, unit, semaphore, shard_log>>
       ELSE ProcessShard(shards_left, shard_log, unit)
    /\ UNCHANGED <<policyVars, command, workerVars, shard_stagger, stats, clock, wake_at>>

\* a second of the run passes: the clock is observed up to MaxClock, and a
\* sleep that has begun always ends; run_pipeline and a fund_wallets run
\* without shard_stagger have no timed step
TickClock ==
    /\ command = "fund"
    /\ shard_stagger
    /\ orch_pc \in {"gather", "stagger"}
    /\ \/ clock < MaxClock
       \/ orch_pc = "stagger" /\ clock < wake_at
    /\ clock' = clock + 1
    /\ UNCHANGED <<policyVars, command, workerVars, shard_stagger, orch_pc, shards_left,
                   shard_id, unit, semaphore, stats, wake_at, shard_log>>

\* run_pipeline up to its gather: one semaphore and one task per
\* (wallet, action)
RunPipeline ==
    /\ command = "actions"
    /\ orch_pc = "init"
    /\ stats' = [total |-> 0, success |-> 0, failed |-> 0, skipped |-> 0]
    /\ semaphore' = concurrency
    /\ unit' = [u \in DOMAIN unit |-> WaitingUnit]
    /\ orch_pc' = "gather"
    /\ UNCHANGED <<policyVars, command, workerVars, shard_stagger, shards_left, shard_id,
                   clock, wake_at, shard_log>>

\* execute_with_semaphore entering the semaphore: a disabled action type is
\* counted as skipped; execute_action either ends before its first await
\* (early), and is counted unless it raised, or suspends
ExecuteWithSemaphore(u, early) ==
    /\ command = "actions"
    /\ orch_pc = "gather"
    /\ unit[u].st = "waiting"
    /\ CanAcquire(semaphore)
    /\ IF PipelineActions[u[2]].type \notin EnabledTypes
       THEN /\ stats' = [stats EXCEPT !.total = @ + 1, !.skipped = @ + 1]
            /\ unit' = [unit EXCEPT ![u] = [st |-> "finished", pos |-> 0,
                                            res |-> "none", why |-> "disabled"]]
            /\ UNCHANGED semaphore
       ELSE IF early = "raised"
            THEN /\ stats' = [stats EXCEPT !.total = @ + 1]
                 /\ unit' = [unit EXCEPT ![u] = [st |-> "finished", pos |-> 0,
                                                 res |-> "raised",
                                                 why |-> "executed"]]
                 /\ UNCHANGED semaphore
            ELSE IF early \in EarlyOutcomes
            THEN /\ stats' = [stats EXCEPT !.total = @ + 1, !.failed = @ + 1]
                 /\ unit' = [unit EXCEPT ![u] =
                                 [st |-> "finished", pos |-> 0, res |-> "false",
                                  why |-> IF early = "no_adapter"
                                          THEN "executed" ELSE "skipped"]]
                 /\ UNCHANGED semaphore
            ELSE /\ stats' = [stats EXCEPT !.total = @ + 1]
                 /\ unit' = [unit EXCEPT ![u] = [st |-> "running", pos |-> 0,
                                                 res |-> "none", why |-> "none"]]
                 /\ semaphore' = semaphore - 1
    /\ UNCHANGED <<policyVars, command, workerVars, shard_stagger, orch_pc, shards_left,
                   shard_id, clock, wake_at, shard_log>>

\* a gather without return_exceptions: the first exception of a unit ends
\* run_pipeline, which returns no statistics
ExecuteReturnedAborting(u, outcome) ==
    /\ command = "actions"
    /\ unit[u].st = "running"
    /\ stats' = CASE outcome = "true" -> [stats EXCEPT !.success = @ + 1]
                  [] outcome = "false" -> [stats EXCEPT !.failed = @ + 1]
                  [] OTHER -> stats
    /\ unit' = [unit EXCEPT ![u] = [st |-> "finished", pos |-> 0,
                                    res |-> outcome, why |-> "executed"]]
    /\ semaphore' = semaphore + 1
    /\ orch_pc' = IF outcome = "raised" THEN "aborted" ELSE orch_pc
    /\ UNCHANGED <<policyVars, command, workerVars, shard_stagger, shards_left,
                   shard_id, clock, wake_at, shard_log>>

\* execute_action ending after it suspended: execute_with_semaphore counts a
\* returned answer, an exception passes through it uncounted; either way
\* the unit leaves the semaphore
ExecuteReturned(u, outcome) ==
    /\ command = "actions"
    /\ unit[u].st = "running"
    /\ stats' = CASE outcome = "true" -> [stats EXCEPT !.success = @ + 1]
                  [] outcome = "false" -> [stats EXCEPT !.failed = @ + 1]
                  [] OTHER -> stats
    /\ unit' = [unit EXCEPT ![u] = [st |-> "finished", pos |-> 0,
                                    res |-> outcome, why |-> "executed"]]
    /\ semaphore' = semaphore + 1
    /\ UNCHANGED <<policyVars, command, workerVars, shard_stagger, orch_pc, shards_left,
                   shard_id, clock, wake_at, shard_log>>

\* the gather of run_pipeline returning
PipelineDone ==
    /\ command = "actions"
    /\ orch_pc = "gather"
    /\ \A u \in DOMAIN unit : unit[u].st = "finished"
    /\ orch_pc' = "done"
    /\ UNCHANGED <<policyVars, command, workerVars, shard_stagger, shards_left, shard_id,
                   unit, semaphore, stats, clock, wake_at, shard_log>>

InitOrch ==
    /\ command \in {"fund", "actions"}
    /\ InitPolicyVars
    /\ shard_stagger \in (IF command = "fund" THEN BOOLEAN ELSE {TRUE})
    /\ orch_pc = "init"
    /\ shards_left = <<>>
    /\ shard_id = -1
    /\ unit = [u \in Units |-> NoUnit]
    /\ semaphore = 0
    /\ stats = <<>>
    /\ clock = 0
    /\ wake_at = 0
    /\ shard_log = <<>>
    /\ now = 0
    /\ enable_jitter = TRUE
    /\ faucet_requests = <<>>
    /\ faucet_cooldowns = <<>>
    /\ wallet_actions = <<>>
    /\ pc = [t \in Tasks |-> "idle"]
    /\ args = [t \in Tasks |-> NoArgs]
    /\ request_id = [t \in Tasks |-> NoId]
    /\ result = [t \in Tasks |-> "none"]
    /\ trace = [t \in Tasks |-> <<>>]
    /\ last_error = [t \in Tasks |-> NoError]
    /\ external_calls = <<>>

NextOrch ==
    \/ FundWallets
    \/ \E u \in DOMAIN unit : FundWithSemaphore(u)
    \/ \E u \in DOMAIN unit, outcome \in ClaimOutcomes :
          ClaimReturned(u, outcome)
    \/ \E jitter \in StaggerJitterDraws : GatherShard(jitter)
    \/ WakeUp
    \/ TickClock
    \/ RunPipeline
    \/ \E u \in DOMAIN unit, early \in EarlyOutcomes \cup {"suspends"} :
          ExecuteWithSemaphore(u, early)
    \/ \E u \in DOMAIN unit, outcome \in LateOutcomes :
          ExecuteReturned(u, outcome)
    \/ PipelineDone

SpecOrch == InitOrch /\ [][NextOrch]_vars

\* the event loop runs every coroutine that is ready, and every awaited
\* call and sleep ends
SpecOrchFair == SpecOrch /\ WF_vars(NextOrch)

-----------------------------------------------------------------------------
(* AutoThrottle (modules/auto_throttle.py).                                 *)
(*                                                                         *)
(* Time is datetime.utcnow() in whole seconds.  The settings are those of   *)
(* the constructor, scaled down; backoff_multiplier is a float in the code  *)
(* and is kept in tenths here.  The clock is observed every ThrottleTick    *)
(* seconds.                                                                 *)

\* the clock of the throttle stops advancing at MaxThrottleTime seconds
MaxThrottleTime == 4

\* the clock of the throttle advances in steps of ThrottleTick seconds
ThrottleTick == 2

\* at most MaxRecords calls of record_request are made
MaxRecords == 6

\* AUTO_THROTTLE_ERROR_THRESHOLD = 0.3, as a percentage
error_threshold == 30

\* AUTO_THROTTLE_ERROR_WINDOW
error_window_seconds == 2

\* AUTO_THROTTLE_MIN_SAMPLES
min_samples == 3

\* AUTO_THROTTLE_PAUSE_DURATION
pause_duration_seconds == 2

\* AUTO_THROTTLE_MAX_PAUSE
max_pause_duration_seconds == 4

\* AUTO_THROTTLE_BACKOFF_MULTIPLIER = 1.5, in tenths
backoff_multiplier == 15

\* the identifiers requests are recorded under
Identifiers == {"shard_0", "shard_1"}

\* status_code=None, the default of record_request: a value that is in no
\* list of status codes
NoStatusCode == 0

\* the status codes a request is recorded with
StatusCodes == {NoStatusCode, 200, 429}

\* status_code in [429, 500, 502, 503, 504]
ThrottleStatus == {429, 500, 502, 503, 504}

\* seconds_remaining of an identifier that is not paused
None == "None"

\* a history from which nothing is removed
PruneNothing(history, cutoff) == history

\* while history and history[0][0] < cutoff: history.popleft()
RECURSIVE Prune(_, _)
Prune(history, cutoff) ==
    IF history # <<>> /\ Head(history)[1] < cutoff
    THEN Prune(Tail(history), cutoff)
    ELSE history

\* request_history.get(identifier, deque())
HistoryOf(histories, identifier) ==
    IF identifier \in DOMAIN histories THEN histories[identifier] ELSE <<>>

\* sum(1 for _, is_error, _ in history if is_error)
ErrorCount(history) ==
    Cardinality({i \in DOMAIN history : history[i][2]})

\* _check_and_throttle asking for more than min_samples observations
ShouldThrottleOffByOne(history) ==
    /\ Len(history) > min_samples
    /\ 100 * ErrorCount(history) >= error_threshold * Len(history)

\* _check_and_throttle: whether _apply_throttle is called
\* (error_count / len(history) >= error_threshold, in percent)
ShouldThrottle(history) ==
    /\ Len(history) >= min_samples
    /\ 100 * ErrorCount(history) >= error_threshold * Len(history)

\* int(current_duration * backoff_multiplier)
Backoff(current_duration, multiplier) ==
    (current_duration * multiplier) \div 10

\* the smaller of two numbers
Min(a, b) == IF a <= b THEN a ELSE b

\* the dict d with d[k] = v
Put(d, k, v) == [x \in DOMAIN d \cup {k} |-> IF x = k THEN v ELSE d[x]]

\* the dict d after del d[k]
Del(d, k) == [x \in DOMAIN d \ {k} |-> d[x]]

\* _apply_throttle that always starts from the base duration
NewPauseNoBackoff(paused, identifier, multiplier, t) ==
    <<t + pause_duration_seconds, pause_duration_seconds>>

\* _apply_throttle: the (pause_until, current_pause_duration) it stores
NewPause(paused, identifier, multiplier, t) ==
    LET new_duration ==
            IF identifier \in DOMAIN paused
            THEN Min(Backoff(paused[identifier][2], multiplier),
                     max_pause_duration_seconds)
            ELSE pause_duration_seconds
    IN  <<t + new_duration, new_duration>>

\* record_request that throttles on any error status, whatever the history
ThrottlesNow(history, status_code) == status_code \in ThrottleStatus

\* record_request that evaluates the error rate whatever the status code
ThrottlesAnyStatus(history, status_code) == ShouldThrottle(history)

\* record_request: whether this observation applies a throttle
Throttles(history, status_code) ==
    status_code \in ThrottleStatus /\ ShouldThrottle(history)

\* AutoThrottle.record_request.  The status code is appended to the history
\* with the observation and never read from it; the history keeps
\* (timestamp, is_error).
RecordRequestEffect(identifier, is_error, status_code) ==
    /\ th_records < MaxRecords
    /\ th_records' = th_records + 1
    /\ LET history == Prune(Append(HistoryOf(request_history, identifier),
                                   <<th_now, is_error>>),
                            th_now - error_window_seconds)
           pause == NewPause(paused_identifiers, identifier,
                             backoff_multiplier, th_now)
       IN  /\ request_history' = Put(request_history, identifier, history)
           /\ IF Throttles(history, status_code)
              THEN /\ paused_identifiers' =
                         Put(paused_identifiers, identifier, pause)
                   /\ th_last' = Put(th_last, identifier, pause)
              ELSE UNCHANGED <<paused_identifiers, th_last>>
    /\ LET fed == IF identifier \in DOMAIN th_fed
                  THEN th_fed[identifier]
                  ELSE [n |-> 0, errors |-> TRUE]
       IN  th_fed' = Put(th_fed, identifier,
                         [n |-> fed.n + 1,
                          errors |-> /\ fed.errors
                                     /\ is_error
                                     /\ status_code \in ThrottleStatus])
    /\ th_call' = [op |-> "record_request", identifier |-> identifier,
                   status_code |-> status_code]

\* AutoThrottle.record_request called on its own
RecordRequest(identifier, is_error, status_code) ==
    /\ RecordRequestEffect(identifier, is_error, status_code)
    /\ UNCHANGED <<command, workerVars, orchVars, ipVars, gateVars, th_now>>

\* is_paused that reports the expiry and keeps the entry
IsPausedKeepsEntry(identifier) ==
    /\ IF identifier \notin DOMAIN paused_identifiers
       THEN th_call' = [op |-> "is_paused", identifier |-> identifier,
                        ret |-> <<FALSE, None>>]
       ELSE IF th_now >= paused_identifiers[identifier][1]
            THEN th_call' = [op |-> "is_paused", identifier |-> identifier,
                             ret |-> <<FALSE, None>>]
            ELSE th_call' = [op |-> "is_paused", identifier |-> identifier,
                             ret |-> <<TRUE, paused_identifiers[identifier][1]
                                             - th_now>>]
    /\ UNCHANGED <<command, workerVars, orchVars, ipVars, gateVars, th_now,
                   request_history, paused_identifiers, th_records, th_last,
                   th_fed>>

\* AutoThrottle.is_paused: (is_paused, seconds_remaining); an expired pause
\* is removed
IsPaused(identifier) ==
    /\ IF identifier \notin DOMAIN paused_identifiers
       THEN /\ th_call' = [op |-> "is_paused", identifier |-> identifier,
                           ret |-> <<FALSE, None>>]
            /\ UNCHANGED paused_identifiers
       ELSE IF th_now >= paused_identifiers[identifier][1]
            THEN /\ paused_identifiers' = Del(paused_identifiers, identifier)
                 /\ th_call' = [op |-> "is_paused", identifier |-> identifier,
                                ret |-> <<FALSE, None>>]
            ELSE /\ th_call' = [op |-> "is_paused", identifier |-> identifier,
                                ret |-> <<TRUE, paused_identifiers[identifier][1]
                                                - th_now>>]
                 /\ UNCHANGED paused_identifiers
    /\ UNCHANGED <<command, workerVars, orchVars, ipVars, gateVars, th_now,
                   request_history, th_records, th_last, th_fed>>

\* ThrottleTick seconds pass
TickThrottle ==
    /\ th_now + ThrottleTick <= MaxThrottleTime
    /\ th_now' = th_now + ThrottleTick
    /\ UNCHANGED <<command, workerVars, orchVars, ipVars, gateVars,
                   request_history, paused_identifiers, th_records, th_call,
                   th_last, th_fed>>

InitThrottle ==
    /\ command = "fund"
    /\ InitWorkerVars
    /\ InitOrchVars
    /\ th_now = 0
    /\ request_history = <<>>
    /\ paused_identifiers = <<>>
    /\ th_records = 0
    /\ th_call = [op |-> "none"]
    /\ th_last = <<>>
    /\ th_fed = <<>>
    /\ InitIPVars
    /\ InitGateVars

NextThrottle ==
    \/ \E identifier \in Identifiers, is_error \in BOOLEAN,
          status_code \in StatusCodes :
            RecordRequest(identifier, is_error, status_code)
    \/ \E identifier \in Identifiers : IsPaused(identifier)
    \/ TickThrottle

SpecThrottle == InitThrottle /\ [][NextThrottle]_vars

-----------------------------------------------------------------------------
(* AutoThrottle._apply_throttle under every configuration.  The durations   *)
(* are the constructor's arguments (or their environment overrides), in     *)
(* seconds; the multiplier is in tenths.                                    *)

\* the clock of this AutoThrottle stops advancing at MaxBackoffTime seconds
MaxBackoffTime == 4

\* AUTO_THROTTLE_PAUSE_DURATION
PauseDurations == {1, 2, 5}

\* AUTO_THROTTLE_BACKOFF_MULTIPLIER: 0.5, 1.5, 2.0
BackoffMultipliers == {5, 15, 20}

\* AUTO_THROTTLE_MAX_PAUSE
MaxPauseDurations == {2, 4}

ThrottleConfigs ==
    [pause_duration_seconds : PauseDurations,
     backoff_multiplier : BackoffMultipliers,
     max_pause_duration_seconds : MaxPauseDurations]

\* _apply_throttle of an AutoThrottle with configuration config: the
\* (pause_until, current_pause_duration) it stores
ApplyThrottle(config, paused, identifier, t) ==
    LET new_duration ==
            IF identifier \in DOMAIN paused
            THEN Min(Backoff(paused[identifier][2], config.backoff_multiplier),
                     config.max_pause_duration_seconds)
            ELSE config.pause_duration_seconds
    IN  <<t + new_duration, new_duration>>

\* a record_request whose observation reaches _apply_throttle
TriggerThrottle(identifier) ==
    /\ at_paused' = Put(at_paused, identifier,
                        ApplyThrottle(at_config, at_paused, identifier, at_now))
    /\ at_trigger' = Put(at_trigger, identifier, at_now)
    /\ UNCHANGED <<notBackoffVars, at_config, at_now>>

\* is_paused of an identifier whose pause has expired: the entry is removed
ExpirePause(identifier) ==
    /\ identifier \in DOMAIN at_paused
    /\ at_now >= at_paused[identifier][1]
    /\ at_paused' = Del(at_paused, identifier)
    /\ at_trigger' = Del(at_trigger, identifier)
    /\ UNCHANGED <<notBackoffVars, at_config, at_now>>

\* a second passes
TickBackoff ==
    /\ at_now < MaxBackoffTime
    /\ at_now' = at_now + 1
    /\ UNCHANGED <<notBackoffVars, at_config, at_paused, at_trigger>>

\* an AutoThrottle of any configuration that has paused nothing
InitBackoff ==
    /\ command = "fund"
    /\ InitWorkerVars
    /\ InitOrchVars
    /\ InitThrottleVars
    /\ InitIPVars
    /\ InitUAVars
    /\ InitSchedVars
    /\ InitPlanVars
    /\ InitFundVars
    /\ InitAirdropVars
    /\ at_config \in ThrottleConfigs
    /\ at_now = 0
    /\ at_paused = <<>>
    /\ at_trigger = <<>>

NextBackoff ==
    \/ \E identifier \in Identifiers : TriggerThrottle(identifier)
    \/ \E identifier \in Identifiers : ExpirePause(identifier)
    \/ TickBackoff

SpecBackoff == InitBackoff /\ [][NextBackoff]_vars

-----------------------------------------------------------------------------
(* IPManager (modules/ip_manager.py).                                       *)
(*                                                                         *)
(* Time is in whole hours: datetime.utcnow() and time.time() read the same  *)
(* clock.  The stickiness windows are those of the constructor, scaled      *)
(* down; rotation_jitter_pct is a float in the code and a percentage here,  *)
(* and random.uniform draws one of its two ends or zero.                    *)

\* the clock of the IP manager stops advancing at MaxIPTime hours
MaxIPTime == 4

\* IP_STICKY_HOURS
ip_sticky_hours == 4

\* FAUCET_IP_STICKY_HOURS
faucet_ip_sticky_hours == 2

\* RPC_IP_STICKY_HOURS (defaults to ip_sticky_hours)
rpc_ip_sticky_hours == ip_sticky_hours

\* IP_ROTATION_JITTER_PCT = 0.2, as a percentage
rotation_jitter_pct == 20

\* shard_id: Optional[int] = None
NoShard == -1

\* the proxy lists an IPManager is constructed with
ProxyLists == {<<>>, <<"p1", "p2">>}

\* the wallets, shards and traffic types of the calls
IPWallets == {"w1"}
IPShards == {0}
TrafficTypes == {"faucet", "general"}

\* the traffic types get_proxy_for_shard is called with
ShardTrafficTypes == {"general"}

\* the keys of traffic_type_proxy
WalletKeys == IPWallets \X TrafficTypes

\* random.uniform(-rotation_jitter_pct, rotation_jitter_pct)
RotationJitterDraws == {-rotation_jitter_pct, 0, rotation_jitter_pct}

\* random.randint(0, min(2, len(proxy_list) - 1)), drawn only for a list of
\* more than one proxy
OffsetDraws(list) ==
    IF Len(list) > 1 THEN 0 .. Min(2, Len(list) - 1) ELSE {0}

\* the stickiness window of a traffic type
StickyHours(traffic_type) ==
    IF traffic_type = "faucet" THEN faucet_ip_sticky_hours
    ELSE IF traffic_type = "rpc" THEN rpc_ip_sticky_hours
    ELSE ip_sticky_hours

\* a stickiness test that never holds
SticksNever(age_hours, sticky_hours, jitter) == FALSE

\* a stickiness test that always holds
SticksAlways(age_hours, sticky_hours, jitter) == TRUE

\* age_hours < sticky_hours * (1 + jitter)
Sticks(age_hours, sticky_hours, jitter) ==
    100 * age_hours < sticky_hours * (100 + jitter)

\* a pool test that never finds the pool empty
NoProxiesNever(list) == FALSE

\* not self.proxy_list
NoProxies(list) == list = <<>>

\* int(hashlib.sha256(f"{wallet}{traffic_type}{bucket}").hexdigest(), 16):
\* a fixed function of its input stands for the digest
HashVal(wallet_address, traffic_type, bucket) ==
    Len(wallet_address) + Len(traffic_type) + 7 * bucket

\* _select_new_proxy; x % len(proxy_list) raises ZeroDivisionError on an
\* empty list
SelectNewProxy(list, wallet_address, shard, traffic_type, t, offset) ==
    IF Len(list) = 0 THEN "ZeroDivisionError"
    ELSE LET bucket == t \div ip_sticky_hours
             index == IF shard # NoShard
                      THEN ((shard % Len(list)) + (bucket % Len(list)))
                           % Len(list)
                      ELSE HashVal(wallet_address, traffic_type, bucket)
                           % Len(list)
             final == IF Len(list) > 1
                      THEN (index + offset) % Len(list)
                      ELSE index
         IN  list[final + 1]

\* IPManager.get_proxy_for_wallet
GetProxyForWallet(wallet_address, shard, traffic_type, jitter, offset) ==
    LET key == <<wallet_address, traffic_type>>
        called(ret) == /\ ip_call' = [op |-> "get_proxy_for_wallet",
                                      key |-> key, ret |-> ret,
                                      prior |-> HistoryOf(traffic_type_proxy,
                                                          key)]
                       /\ ip_prev' = Put(ip_prev, key, ip_now)
    IN  /\ IF NoProxies(proxy_list)
           THEN /\ called(None)
                /\ UNCHANGED traffic_type_proxy
           ELSE IF /\ key \in DOMAIN traffic_type_proxy
                   /\ Sticks(ip_now - traffic_type_proxy[key][2],
                             StickyHours(traffic_type), jitter)
                THEN /\ called(traffic_type_proxy[key][1])
                     /\ UNCHANGED traffic_type_proxy
                ELSE LET proxy == SelectNewProxy(proxy_list, wallet_address,
                                                 shard, traffic_type, ip_now,
                                                 offset)
                     IN  IF proxy = "ZeroDivisionError"
                         THEN /\ called("raised")
                              /\ UNCHANGED traffic_type_proxy
                         ELSE /\ called(proxy)
                              /\ traffic_type_proxy' =
                                     Put(traffic_type_proxy, key,
                                         <<proxy, ip_now>>)
        /\ UNCHANGED <<command, workerVars, orchVars, throttleVars, gateVars,
                       ip_now, proxy_list, shard_to_proxy>>

\* IPManager.get_proxy_for_shard
GetProxyForShard(shard, traffic_type, offset) ==
    LET key == <<shard, traffic_type>>
        called(ret) == ip_call' = [op |-> "get_proxy_for_shard",
                                   key |-> key, ret |-> ret]
    IN  /\ IF NoProxies(proxy_list)
           THEN /\ called(None)
                /\ UNCHANGED shard_to_proxy
           ELSE IF /\ key \in DOMAIN shard_to_proxy
                   /\ ip_now - shard_to_proxy[key][2]
                          < StickyHours(traffic_type)
                THEN /\ called(shard_to_proxy[key][1])
                     /\ UNCHANGED shard_to_proxy
                ELSE LET proxy == SelectNewProxy(proxy_list, "shard_0", shard,
                                                 traffic_type, ip_now, offset)
                     IN  IF proxy = "ZeroDivisionError"
                         THEN /\ called("raised")
                              /\ UNCHANGED shard_to_proxy
                         ELSE /\ called(proxy)
                              /\ shard_to_proxy' =
                                     Put(shard_to_proxy, key,
                                         <<proxy, ip_now>>)
        /\ UNCHANGED <<command, workerVars, orchVars, throttleVars, gateVars,
                       ip_now, proxy_list, traffic_type_proxy, ip_prev>>

\* IPManager.force_rotation; an argument left out is None / NoShard
ForceRotation(wallet_address, shard, traffic_type) ==
    /\ IF wallet_address # None /\ traffic_type # None
       THEN /\ traffic_type_proxy' =
                   Del(traffic_type_proxy, <<wallet_address, traffic_type>>)
            /\ ip_prev' = Del(ip_prev, <<wallet_address, traffic_type>>)
       ELSE UNCHANGED <<traffic_type_proxy, ip_prev>>
    /\ IF shard # NoShard /\ traffic_type # None
       THEN shard_to_proxy' = Del(shard_to_proxy, <<shard, traffic_type>>)
       ELSE UNCHANGED shard_to_proxy
    /\ ip_call' = [op |-> "force_rotation"]
    /\ UNCHANGED <<command, workerVars, orchVars, throttleVars, gateVars,
                   ip_now, proxy_list>>

\* an hour passes
TickIP ==
    /\ ip_now < MaxIPTime
    /\ ip_now' = ip_now + 1
    /\ UNCHANGED <<command, workerVars, orchVars, throttleVars, gateVars,
                   proxy_list, traffic_type_proxy, shard_to_proxy, ip_call,
                   ip_prev>>

InitIP ==
    /\ command = "fund"
    /\ InitWorkerVars
    /\ InitOrchVars
    /\ InitThrottleVars
    /\ InitGateVars
    /\ ip_now = 0
    /\ proxy_list \in ProxyLists
    /\ traffic_type_proxy = <<>>
    /\ shard_to_proxy = <<>>
    /\ ip_call = [op |-> "none"]
    /\ ip_prev = <<>>

NextIP ==
    \/ \E wallet_address \in IPWallets, shard \in IPShards \cup {NoShard},
          traffic_type \in TrafficTypes, jitter \in RotationJitterDraws,
          offset \in OffsetDraws(proxy_list) :
            GetProxyForWallet(wallet_address, shard, traffic_type, jitter,
                              offset)
    \/ \E shard \in IPShards, traffic_type \in ShardTrafficTypes,
          offset \in OffsetDraws(proxy_list) :
            GetProxyForShard(shard, traffic_type, offset)
    \/ \E wallet_address \in IPWallets \cup {None},
          shard \in IPShards \cup {NoShard},
          traffic_type \in TrafficTypes \cup {None} :
            ForceRotation(wallet_address, shard, traffic_type)
    \/ TickIP

SpecIP == InitIP /\ [][NextIP]_vars

-----------------------------------------------------------------------------
(* UserAgentRotator (modules/ua_rotation.py).                               *)
(*                                                                         *)
(* Time is datetime.utcnow() in whole hours.  The pool holds two            *)
(* User-Agents; session_duration_hours is scaled down.                      *)

\* the clock of the rotator stops advancing at MaxUATime hours
MaxUATime == 2

\* UA_SESSION_DURATION_HOURS
session_duration_hours == 2

\* self.user_agents
user_agents == <<"ua1", "ua2">>

\* the session_id, wallet_address and extra_headers arguments of the calls;
\* None stands for an argument left out
SessionIds == {None, "s1"}
UAWallets == {"w1", "w2"}
ExtraHeaders == {<<>>, "X-Requested-With" :> "XMLHttpRequest"}

\* f"shard_{shard_id}"
ShardName(shard) == IF shard = 0 THEN "shard_0" ELSE "shard_n"

\* identifier = session_id or wallet_address or f"shard_{shard_id}"
\*                  if shard_id is not None else "default"
\* (the conditional expression binds weaker than `or`)
UAIdentifier(session_id, wallet_address, shard) ==
    IF shard # NoShard
    THEN IF session_id # None THEN session_id
         ELSE IF wallet_address # None THEN wallet_address
         ELSE ShardName(shard)
    ELSE "default"

\* the identifiers the calls can lead to
UAIdentifiers == {"s1", "w1", "w2", "default"}

\* a session test that never finds a live assignment
UALiveNever(sessions, identifier, t) == FALSE

\* identifier in self.session_ua and age_hours < self.session_duration_hours
UALive(sessions, identifier, t) ==
    /\ identifier \in DOMAIN sessions
    /\ t - sessions[identifier][2] < session_duration_hours

\* d.update(e)
Update(d, e) ==
    [h \in DOMAIN d \cup DOMAIN e |-> IF h \in DOMAIN e THEN e[h] ELSE d[h]]

\* the header set get_headers builds around a User-Agent
BrowserHeaders(ua) ==
    [h \in {"User-Agent", "Accept", "Accept-Language", "Accept-Encoding",
            "DNT", "Connection", "Upgrade-Insecure-Requests",
            "Sec-Fetch-Dest", "Sec-Fetch-Mode", "Sec-Fetch-Site",
            "Cache-Control"} |->
        CASE h = "User-Agent" -> ua
          [] h = "Accept" -> "text/html,application/xhtml+xml,application/xml;q=0.9,image/webp,*/*;q=0.8"
          [] h = "Accept-Language" -> "en-US,en;q=0.9"
          [] h = "Accept-Encoding" -> "gzip, deflate, br"
          [] h = "DNT" -> "1"
          [] h = "Connection" -> "keep-alive"
          [] h = "Upgrade-Insecure-Requests" -> "1"
          [] h = "Sec-Fetch-Dest" -> "document"
          [] h = "Sec-Fetch-Mode" -> "navigate"
          [] h = "Sec-Fetch-Site" -> "none"
          [] OTHER -> "max-age=0"]

\* get_user_agent: the User-Agent returned; `choice` is the draw of
\* random.choice(self.user_agents)
UserAgentOf(sessions, identifier, t, choice) ==
    IF UALive(sessions, identifier, t)
    THEN sessions[identifier][1]
    ELSE user_agents[choice]

\* get_user_agent: self.session_ua after the call
SessionsAfter(sessions, identifier, t, choice) ==
    IF UALive(sessions, identifier, t)
    THEN sessions
    ELSE Put(sessions, identifier, <<user_agents[choice], t>>)

\* get_headers: the headers returned
HeadersOf(sessions, identifier, t, choice, extra_headers) ==
    LET headers == BrowserHeaders(UserAgentOf(sessions, identifier, t, choice))
    IN  IF extra_headers # <<>> THEN Update(headers, extra_headers) ELSE headers

\* UserAgentRotator.get_headers
GetHeaders(session_id, wallet_address, shard, extra_headers, choice) ==
    LET identifier == UAIdentifier(session_id, wallet_address, shard)
        call_args == <<session_id, wallet_address, shard, extra_headers>>
    IN  /\ session_ua' = SessionsAfter(session_ua, identifier, ua_now, choice)
        /\ ua_call' = [op |-> "get_headers", args |-> call_args,
                       ret |-> HeadersOf(session_ua, identifier, ua_now,
                                         choice, extra_headers),
                       repeat |-> /\ ua_call.op = "get_headers"
                                  /\ ua_call.args = call_args]
        /\ UNCHANGED <<notUAVars, ua_now>>

\* UserAgentRotator.rotate
Rotate(identifier) ==
    /\ session_ua' = Del(session_ua, identifier)
    /\ ua_call' = [op |-> "rotate", identifier |-> identifier]
    /\ UNCHANGED <<notUAVars, ua_now>>

\* an hour passes
TickUA ==
    /\ ua_now < MaxUATime
    /\ ua_now' = ua_now + 1
    /\ ua_call' = [op |-> "none"]
    /\ UNCHANGED <<notUAVars, session_ua>>

InitUA ==
    /\ command = "fund"
    /\ InitWorkerVars
    /\ InitOrchVars
    /\ InitThrottleVars
    /\ InitIPVars
    /\ InitUAVars
    /\ InitSchedVars
    /\ InitPlanVars
    /\ InitFundVars
    /\ InitAirdropVars
    /\ InitBackoffVars

NextUA ==
    \/ \E session_id \in SessionIds, wallet_address \in UAWallets,
          shard \in IPShards \cup {NoShard}, extra_headers \in ExtraHeaders,
          choice \in DOMAIN user_agents :
            GetHeaders(session_id, wallet_address, shard, extra_headers,
                       choice)
    \/ \E identifier \in UAIdentifiers : Rotate(identifier)
    \/ TickUA

SpecUA == InitUA /\ [][NextUA]_vars

-----------------------------------------------------------------------------
(* SchedulerEntropy (modules/scheduler.py).                                 *)
(*                                                                         *)
(* Time is datetime.utcnow() in whole hours, counted from a Monday 00:00.   *)
(* A random.random() compared with a threshold is a boolean input.          *)

\* the clock of the scheduler stops advancing at MaxSchedTime hours
MaxSchedTime == 168

\* the clock of the scheduler advances in steps of SchedTick hours
SchedTick == 6

\* the off_days an instance is configured with (OFF_DAYS)
OffDayConfigs == {{}, {6}, {0, 5}}

\* self.night_lull_windows
night_lull_windows == {<<0, 6>>, <<22, 24>>}

\* the night_lull_windows a SchedulerEntropy is constructed with: the
\* default, and NIGHT_LULL_WINDOWS=18-6, a window that wraps past midnight
LullConfigs == {night_lull_windows, {<<18, 6>>}}

\* the wallet_address argument; None stands for an argument left out
SchedWallets == {None, "w1"}

\* now.weekday(): 0 = Monday, 6 = Sunday
Weekday(t) == (t \div 24) % 7

\* now.hour
HourOf(t) == t % 24

\* an off-day test that never holds
IsOffDayNever(weekday, offs) == FALSE

\* weekday in self.off_days
IsOffDay(weekday, offs) == weekday \in offs

\* a lull test that takes the end hour of a window as part of it
InNightLullInclusive(windows, hour) ==
    \E window \in windows :
        \/ window[1] <= hour /\ hour <= window[2]
        \/ window[1] > window[2] /\ (hour >= window[1] \/ hour <= window[2])

\* any(start <= hour < end or (start > end and (hour >= start or hour < end)))
InNightLull(windows, hour) ==
    \E window \in windows :
        \/ window[1] <= hour /\ hour < window[2]
        \/ window[1] > window[2] /\ (hour >= window[1] \/ hour < window[2])

\* should_execute_now: the result and the number of random.random() calls
\* made.  night_draw is random.random() > 1 - night_activity_reduction,
\* weekend_draw is random.random() > 1 - weekend_activity_reduction.
ShouldExecuteNow(t, wallet_address, respect_lulls, offs, skips, windows, night_draw, weekend_draw) ==
    LET night == InNightLull(windows, HourOf(t))
        weekend == Weekday(t) \in {5, 6}
    IN  IF IsOffDay(Weekday(t), offs)
        THEN [ret |-> FALSE, draws |-> 0]
        ELSE IF /\ wallet_address # None
                /\ wallet_address \in DOMAIN skips
                /\ DayOf(t) \in skips[wallet_address]
        THEN [ret |-> FALSE, draws |-> 0]
        ELSE IF ~respect_lulls
        THEN [ret |-> TRUE, draws |-> 0]
        ELSE IF night /\ night_draw
        THEN [ret |-> FALSE, draws |-> 1]
        ELSE IF weekend /\ weekend_draw
        THEN [ret |-> FALSE, draws |-> IF night THEN 2 ELSE 1]
        ELSE [ret |-> TRUE,
              draws |-> (IF night THEN 1 ELSE 0) + (IF weekend THEN 1 ELSE 0)]

\* SchedulerEntropy.should_execute_now
CallShouldExecuteNow(wallet_address, respect_lulls, night_draw, weekend_draw) ==
    LET r == ShouldExecuteNow(sched_now, wallet_address, respect_lulls,
                              off_days, wallet_skip_days, lull_windows,
                              night_draw, weekend_draw)
    IN  /\ sched_call' = [op |-> "should_execute_now",
                          wallet_address |-> wallet_address,
                          respect_lulls |-> respect_lulls,
                          ret |-> r.ret, draws |-> r.draws]
        /\ UNCHANGED <<notSchedVars, sched_now, off_days, wallet_skip_days,
                       lull_windows>>

\* wallet_skip_days after add_wallet_skip_day(wallet_address, date)
AddSkipDay(skips, wallet_address, date) ==
    Put(skips, wallet_address,
        (IF wallet_address \in DOMAIN skips THEN skips[wallet_address] ELSE {})
            \cup {DayOf(date)})

\* SchedulerEntropy.add_wallet_skip_day, for today
AddWalletSkipDay(wallet_address) ==
    /\ wallet_skip_days' = AddSkipDay(wallet_skip_days, wallet_address, sched_now)
    /\ sched_call' = [op |-> "add_wallet_skip_day"]
    /\ UNCHANGED <<notSchedVars, sched_now, off_days, lull_windows>>

\* SchedTick hours pass
TickSched ==
    /\ sched_now + SchedTick <= MaxSchedTime
    /\ sched_now' = sched_now + SchedTick
    /\ sched_call' = [op |-> "none"]
    /\ UNCHANGED <<notSchedVars, off_days, wallet_skip_days, lull_windows>>

InitSched ==
    /\ command = "fund"
    /\ InitWorkerVars
    /\ InitOrchVars
    /\ InitThrottleVars
    /\ InitIPVars
    /\ InitUAVars
    /\ InitPlanVars
    /\ InitFundVars
    /\ InitAirdropVars
    /\ InitBackoffVars
    /\ sched_now = 0
    /\ off_days \in OffDayConfigs
    /\ lull_windows \in LullConfigs
    /\ wallet_skip_days = <<>>
    /\ sched_call = [op |-> "none"]

NextSched ==
    \/ \E wallet_address \in SchedWallets, respect_lulls \in BOOLEAN,
          night_draw \in BOOLEAN, weekend_draw \in BOOLEAN :
            CallShouldExecuteNow(wallet_address, respect_lulls, night_draw,
                                 weekend_draw)
    \/ \E wallet_address \in SchedWallets \ {None} :
            AddWalletSkipDay(wallet_address)
    \/ TickSched

SpecSched == InitSched /\ [][NextSched]_vars

-----------------------------------------------------------------------------
(* AntiDetection (modules/anti_detection.py): the request plan.             *)
(*                                                                         *)
(* The coordinator owns one SchedulerEntropy, one IPManager (only when it   *)
(* has proxies), one UserAgentRotator and one AutoThrottle.  A run lies     *)
(* within one hour: the hour clocks stand still and the throttle's clock    *)
(* of seconds advances.  The histories kept for the components on their     *)
(* own (th_call apart) are not kept here.                                   *)

\* at most MaxOutcomes request outcomes are recorded
MaxOutcomes == 3

\* the hour a run starts at: Monday 00:00, in a night lull and not on a
\* weekend
PlanHours == {0}

\* the off_days a coordinator's scheduler is configured with
PlanOffDays == {{}, {0}}

\* the arguments of get_request_config
PlanWallets == {"w1"}
PlanShards == {NoShard, 0}
PlanTrafficTypes == {"faucet"}

\* the draws of random.choice(self.user_agents)
PlanChoices == {1}

\* f"faucet_{address[:10]}"
FaucetIdentifier(address) ==
    IF address = "w1" THEN "faucet_w1" ELSE "faucet_other"

\* the identifiers record_request_outcome is called with
OutcomeIdentifiers == {"w1", "shard_0"}

\* the statuses of the faucet's responses
FaucetStatuses == {200, 429}

\* a throttle identifier that is the wallet whatever the shard
ThrottleIdentifierWallet(wallet_address, shard) == wallet_address

\* identifier = f"shard_{shard_id}" if shard_id is not None else wallet_address
ThrottleIdentifier(wallet_address, shard) ==
    IF shard # NoShard THEN ShardName(shard) ELSE wallet_address

\* a gate whose refusal does not end get_request_config
GateStopsNever(should_proceed) == FALSE

\* if not config['should_proceed']: return config
GateStops(should_proceed) == ~should_proceed

\* self.ip_manager is not None (the environment names no proxies)
HasIPManager(list) == list # <<>>

\* get_proxy_for_wallet: the proxy returned
ProxyOf(assignments, list, wallet_address, shard, traffic_type, t, jitter, offset) ==
    LET key == <<wallet_address, traffic_type>>
    IN  IF NoProxies(list) THEN None
        ELSE IF /\ key \in DOMAIN assignments
                /\ Sticks(t - assignments[key][2], StickyHours(traffic_type),
                          jitter)
        THEN assignments[key][1]
        ELSE SelectNewProxy(list, wallet_address, shard, traffic_type, t,
                            offset)

\* get_proxy_for_wallet: self.traffic_type_proxy after the call
AssignmentsAfter(assignments, list, wallet_address, shard, traffic_type, t, jitter, offset) ==
    LET key == <<wallet_address, traffic_type>>
    IN  IF NoProxies(list) THEN assignments
        ELSE IF /\ key \in DOMAIN assignments
                /\ Sticks(t - assignments[key][2], StickyHours(traffic_type),
                          jitter)
        THEN assignments
        ELSE Put(assignments, key,
                 <<SelectNewProxy(list, wallet_address, shard, traffic_type,
                                  t, offset), t>>)

\* whether pause_until of the identifier's entry lies ahead
Unexpired(paused, identifier, t) ==
    identifier \in DOMAIN paused /\ t < paused[identifier][1]

\* is_paused: (is_paused, seconds_remaining)
IsPausedResult(paused, identifier, t) ==
    IF Unexpired(paused, identifier, t)
    THEN <<TRUE, paused[identifier][1] - t>>
    ELSE <<FALSE, None>>

\* is_paused: self.paused_identifiers after the call
PausedAfter(paused, identifier, t) ==
    IF identifier \in DOMAIN paused /\ t >= paused[identifier][1]
    THEN Del(paused, identifier)
    ELSE paused

\* AntiDetection.get_request_config with every component enabled
GetRequestConfig(wallet_address, shard, traffic_type, session_id, night_draw, weekend_draw, jitter, offset, choice) ==
    LET gate == ShouldExecuteNow(sched_now, wallet_address, TRUE, off_days,
                                 wallet_skip_days, lull_windows, night_draw,
                                 weekend_draw).ret
        ua_identifier == UAIdentifier(session_id, wallet_address, shard)
        identifier == ThrottleIdentifier(wallet_address, shard)
        paused == IsPausedResult(paused_identifiers, identifier, th_now)
        called(config) ==
            plan_call' = [op |-> "get_request_config",
                          wallet_address |-> wallet_address,
                          shard |-> shard, traffic_type |-> traffic_type,
                          gate |-> gate, ret |-> config]
    IN  IF GateStops(gate)
        THEN /\ called([proxy |-> None, headers |-> <<>>,
                        should_proceed |-> gate, delay_seconds |-> 0])
             /\ UNCHANGED <<notPlanVars, throttleVars, ipVars, uaVars,
                            schedVars>>
        ELSE /\ called([proxy |->
                            IF HasIPManager(proxy_list)
                            THEN ProxyOf(traffic_type_proxy, proxy_list,
                                         wallet_address, shard, traffic_type,
                                         ip_now, jitter, offset)
                            ELSE None,
                        headers |-> HeadersOf(session_ua, ua_identifier,
                                              ua_now, choice, <<>>),
                        should_proceed |-> IF paused[1] THEN FALSE ELSE gate,
                        delay_seconds |-> IF paused[1] THEN paused[2] ELSE 0])
             /\ traffic_type_proxy' =
                    IF HasIPManager(proxy_list)
                    THEN AssignmentsAfter(traffic_type_proxy, proxy_list,
                                          wallet_address, shard, traffic_type,
                                          ip_now, jitter, offset)
                    ELSE traffic_type_proxy
             /\ session_ua' = SessionsAfter(session_ua, ua_identifier, ua_now,
                                            choice)
             /\ paused_identifiers' =
                    PausedAfter(paused_identifiers, identifier, th_now)
             /\ UNCHANGED <<notPlanVars, th_now,
                            request_history, th_records, th_call, th_last,
                            th_fed, ip_now, proxy_list, shard_to_proxy,
                            ip_call, ip_prev, ua_now, ua_call, schedVars>>

\* AntiDetection.record_request_outcome
RecordRequestOutcome(identifier, success, status_code) ==
    /\ th_records < MaxOutcomes
    /\ RecordRequestEffect(identifier, ~success, status_code)
    /\ plan_call' = [op |-> "none"]
    /\ UNCHANGED <<notPlanVars, ipVars, uaVars, schedVars, th_now>>

\* _handle_faucet_response: the outcome it records for a response
HandleFaucetResponse(address, status) ==
    RecordRequestOutcome(FaucetIdentifier(address), status \in {200, 201},
                         status)

\* ThrottleTick seconds pass
TickPlan ==
    /\ th_now + ThrottleTick <= MaxThrottleTime
    /\ th_now' = th_now + ThrottleTick
    /\ plan_call' = [op |-> "none"]
    /\ UNCHANGED <<notPlanVars, ipVars, uaVars, schedVars,
                   request_history, paused_identifiers, th_records, th_call,
                   th_last, th_fed>>

InitPlan ==
    /\ command = "fund"
    /\ InitWorkerVars
    /\ InitOrchVars
    /\ InitThrottleVars
    /\ InitUAVars
    /\ InitPlanVars
    /\ InitFundVars
    /\ InitAirdropVars
    /\ InitBackoffVars
    /\ ip_now = 0
    /\ proxy_list \in ProxyLists
    /\ traffic_type_proxy = <<>>
    /\ shard_to_proxy = <<>>
    /\ ip_call = [op |-> "none"]
    /\ ip_prev = <<>>
    /\ sched_now \in PlanHours
    /\ off_days \in PlanOffDays
    /\ wallet_skip_days = <<>>
    /\ lull_windows = night_lull_windows
    /\ sched_call = [op |-> "none"]

NextPlan ==
    \/ \E wallet_address \in PlanWallets, shard \in PlanShards,
          traffic_type \in PlanTrafficTypes, night_draw \in BOOLEAN,
          weekend_draw \in {FALSE}, jitter \in {0},
          offset \in OffsetDraws(proxy_list), choice \in PlanChoices :
            GetRequestConfig(wallet_address, shard, traffic_type, None,
                             night_draw, weekend_draw, jitter, offset, choice)
    \/ \E identifier \in OutcomeIdentifiers, status_code \in FaucetStatuses :
            RecordRequestOutcome(identifier, status_code \in {200, 201},
                                 status_code)
    \/ \E address \in PlanWallets, status \in FaucetStatuses :
            HandleFaucetResponse(address, status)
    \/ TickPlan

SpecPlan == InitPlan /\ [][NextPlan]_vars

-----------------------------------------------------------------------------
(* FaucetConfig.get_chain_faucets and FaucetOrchestrator.fund_wallet         *)
(* (modules/faucet_automation.py).                                          *)
(*                                                                         *)
(* A faucet of the configuration is a record with a name and, optionally,   *)
(* the keys enabled and priority.  fund_wallet suspends in each             *)
(* claim_from_faucet call; the answer of the call is an input.              *)

\* a chain is configured with at most MaxFaucets faucets
MaxFaucets == 3

\* the priority of a faucet without the key: x.get('priority', 999)
default_priority == 999

\* the faucets a chain can be configured with
FaucetEntries ==
    {[name |-> "fA", priority |-> 2],
     [name |-> "fB", priority |-> 1, enabled |-> TRUE],
     [name |-> "fC", priority |-> 1, enabled |-> FALSE],
     [name |-> "fD"],
     [name |-> "fE", priority |-> 2, enabled |-> TRUE]}

\* the lists of up to n different faucets
RECURSIVE FaucetLists(_)
FaucetLists(n) ==
    IF n = 0
    THEN {<<>>}
    ELSE LET shorter == FaucetLists(n - 1)
         IN  shorter \cup
             {Append(l, f) : l \in {x \in shorter : Len(x) = n - 1},
                             f \in FaucetEntries}

\* the chains argument of fund_wallet
FundChains == <<"c1", "c2">>

\* the configurations of the chains: any list of different faucets for c1,
\* one faucet or none for c2
FundConfigs ==
    {[c \in {"c1", "c2"} |-> IF c = "c1" THEN l1 ELSE l2] :
        l1 \in {l \in FaucetLists(MaxFaucets) :
                   \A i, j \in DOMAIN l : i # j => l[i] # l[j]},
        l2 \in {<<>>, <<[name |-> "fA", priority |-> 2]>>}}

\* what claim_from_faucet answers: True, False or an exception
FundOutcomes == {"true", "false", "raised"}

\* f.get('enabled', True)
FaucetEnabled(f) == IF "enabled" \in DOMAIN f THEN f.enabled ELSE TRUE

\* x.get('priority', 999)
PriorityOf(f) == IF "priority" \in DOMAIN f THEN f.priority ELSE default_priority

\* sorted so far with x put behind the entries whose key is not larger
RECURSIVE InsertByPriority(_, _)
InsertByPriority(sorted, x) ==
    IF sorted = <<>> \/ PriorityOf(sorted[Len(sorted)]) <= PriorityOf(x)
    THEN Append(sorted, x)
    ELSE Append(InsertByPriority(SubSeq(sorted, 1, Len(sorted) - 1), x),
                sorted[Len(sorted)])

\* a sort that leaves the list as it is
Unsorted(faucets) == faucets

\* list.sort(key=priority): a stable sort
RECURSIVE SortByPriority(_)
SortByPriority(faucets) ==
    IF faucets = <<>>
    THEN <<>>
    ELSE InsertByPriority(SortByPriority(SubSeq(faucets, 1, Len(faucets) - 1)),
                          faucets[Len(faucets)])

\* FaucetConfig.get_chain_faucets
GetChainFaucets(config, chain) ==
    LET faucets == IF chain \in DOMAIN config THEN config[chain] ELSE <<>>
        enabled == SelectSeq(faucets, FaucetEnabled)
    IN  SortByPriority(enabled)

\* the chains from the first one that has faucets on: the chain loop
\* continues past a chain without faucets
RECURSIVE SkipUnconfigured(_, _)
SkipUnconfigured(config, chains) ==
    IF chains = <<>> \/ GetChainFaucets(config, Head(chains)) # <<>>
    THEN chains
    ELSE SkipUnconfigured(config, Tail(chains))

\* the chain loop from `chains` on, up to the first claim_from_faucet call
\* or to the return of the results
VisitChains(chains) ==
    LET rest == SkipUnconfigured(fw_config, chains)
    IN  /\ fw_chains' = rest
        /\ fw_success' = FALSE
        /\ IF rest = <<>>
           THEN /\ fw_pc' = "done"
                /\ fw_faucets' = <<>>
                /\ fw_pos' = 0
           ELSE /\ fw_pc' = "claim"
                /\ fw_faucets' = GetChainFaucets(fw_config, Head(rest))
                /\ fw_pos' = 1

\* FaucetOrchestrator.fund_wallet up to its first await
FundWallet ==
    /\ fw_pc = "init"
    /\ fw_results' = <<>>
    /\ fw_attempts' = <<>>
    /\ VisitChains(FundChains)
    /\ UNCHANGED <<notFundVars, fw_config>>

\* claim_from_faucet answering fund_wallet, up to the next await or the
\* return
ClaimAnswered(outcome) ==
    /\ fw_pc = "claim"
    /\ LET chain == Head(fw_chains)
           success == IF outcome = "raised" THEN fw_success
                      ELSE outcome = "true"
           log == IF chain \in DOMAIN fw_attempts
                  THEN fw_attempts[chain] ELSE <<>>
       IN  /\ fw_attempts' =
                  Put(fw_attempts, chain,
                      Append(log, <<fw_faucets[fw_pos].name, outcome>>))
           /\ IF outcome # "raised" /\ success
              THEN /\ fw_results' = Put(fw_results, chain, success)
                   /\ VisitChains(Tail(fw_chains))
              ELSE IF fw_pos < Len(fw_faucets)
              THEN /\ fw_pos' = fw_pos + 1
                   /\ fw_success' = success
                   /\ UNCHANGED <<fw_pc, fw_chains, fw_faucets, fw_results>>
              ELSE /\ fw_results' = Put(fw_results, chain, success)
                   /\ VisitChains(Tail(fw_chains))
    /\ UNCHANGED <<notFundVars, fw_config>>

InitFund ==
    /\ command = "fund"
    /\ InitWorkerVars
    /\ InitOrchVars
    /\ InitThrottleVars
    /\ InitIPVars
    /\ InitUAVars
    /\ InitSchedVars
    /\ InitPlanVars
    /\ InitAirdropVars
    /\ InitBackoffVars
    /\ fw_config \in FundConfigs
    /\ fw_pc = "init"
    /\ fw_chains = <<>>
    /\ fw_faucets = <<>>
    /\ fw_pos = 0
    /\ fw_success = FALSE
    /\ fw_results = <<>>
    /\ fw_attempts = <<>>

NextFund ==
    \/ FundWallet
    \/ \E outcome \in FundOutcomes : ClaimAnswered(outcome)

SpecFund == InitFund /\ [][NextFund]_vars

-----------------------------------------------------------------------------
(* AirdropClaimer.check_and_claim_airdrops (modules/airdrop_claimer.py).    *)
(*                                                                         *)
(* The coroutine suspends in check_eligibility, in the sleep before a       *)
(* claim and in _execute_claim.  Its straight-line code is cut at the heads *)
(* of the wallet loop and of the airdrop loop; ac_pc says where it is.      *)

\* the wallets argument
AirdropWallets == <<"w1", "w2">>

\* the airdrops of the registry in the order of the configuration file, and
\* whether get_active_airdrops keeps them
Registries ==
    {<<>>,
     <<[name |-> "a1", active |-> TRUE]>>,
     <<[name |-> "a1", active |-> FALSE]>>,
     <<[name |-> "a1", active |-> TRUE], [name |-> "a2", active |-> TRUE]>>,
     <<[name |-> "a1", active |-> FALSE], [name |-> "a2", active |-> TRUE]>>}

\* the airdrop_name argument; None stands for an argument left out, and a3
\* is in no registry
AirdropNames == {None, "a1", "a3"}

\* the claims on record when the run starts
ClaimedBefore == {{}, {<<"w1", "a1">>}}

\* what check_eligibility answers: eligible, not eligible, or an exception
EligibilityOutcomes == {"eligible", "ineligible", "raised"}

\* the stats dictionary of a run over n wallets
NewStats(n) ==
    [total_wallets |-> n, total_checks |-> 0, eligible |-> 0,
     ineligible |-> 0, claimed |-> 0, failed |-> 0, skipped |-> 0]

\* self.registry.get_airdrop(name): the names of the airdrops to check
GetAirdrop(registry, name) ==
    SelectSeq([i \in DOMAIN registry |-> registry[i].name],
              LAMBDA n : n = name)

\* self.registry.get_active_airdrops(): the names of the airdrops to check
GetActiveAirdrops(registry) ==
    LET active == SelectSeq(registry, LAMBDA a : a.active)
    IN  [i \in DOMAIN active |-> active[i].name]

\* a veto that is not counted
AfterSkipUncounted(st) == st

\* stats['skipped'] += 1
AfterSkip(st) == [st EXCEPT !.skipped = @ + 1]

\* stats['total_checks'] += 1
AfterCheck(st) == [st EXCEPT !.total_checks = @ + 1]

\* check_and_claim_airdrops up to the wallet loop, or to its early return
\* when the named airdrop is unknown or no airdrop is active
CheckAndClaimAirdrops(airdrop_name, check_only) ==
    /\ ac_pc = "init"
    /\ ac_args' = [airdrop_name |-> airdrop_name, check_only |-> check_only]
    /\ ac_stats' = NewStats(Len(AirdropWallets))
    /\ LET airdrops_to_check ==
               IF airdrop_name # None
               THEN GetAirdrop(ac_registry, airdrop_name)
               ELSE GetActiveAirdrops(ac_registry)
       IN  /\ ac_airdrops' = airdrops_to_check
           /\ ac_pc' = IF airdrops_to_check = <<>> THEN "returned" ELSE "wallet"
           /\ ac_wallet' = IF airdrops_to_check = <<>> THEN 0 ELSE 1
    /\ UNCHANGED <<notAirdropVars, ac_registry, ac_claimed, ac_airdrop>>

\* the head of the wallet loop: the list is exhausted and the stats are
\* returned, or should_skip_action vetoes the wallet, or the airdrop loop
\* starts
NextWallet(skip) ==
    /\ ac_pc = "wallet"
    /\ IF ac_wallet > Len(AirdropWallets)
       THEN /\ ac_pc' = "returned"
            /\ UNCHANGED <<ac_wallet, ac_airdrop, ac_stats>>
       ELSE IF skip
       THEN /\ ac_stats' = AfterSkip(ac_stats)
            /\ ac_wallet' = ac_wallet + 1
            /\ UNCHANGED <<ac_pc, ac_airdrop>>
       ELSE /\ ac_pc' = "airdrop"
            /\ ac_airdrop' = 1
            /\ UNCHANGED <<ac_wallet, ac_stats>>
    /\ UNCHANGED <<notAirdropVars, ac_registry, ac_claimed, ac_args,
                   ac_airdrops>>

\* the head of the airdrop loop: the airdrops are exhausted and the next
\* wallet follows, or the check is counted and then either dropped because
\* the claim is on record or passed to check_eligibility
NextAirdrop ==
    /\ ac_pc = "airdrop"
    /\ IF ac_airdrop > Len(ac_airdrops)
       THEN /\ ac_pc' = "wallet"
            /\ ac_wallet' = ac_wallet + 1
            /\ UNCHANGED <<ac_airdrop, ac_stats>>
       ELSE /\ ac_stats' = AfterCheck(ac_stats)
            /\ IF <<AirdropWallets[ac_wallet], ac_airdrops[ac_airdrop]>>
                      \in ac_claimed
               THEN /\ ac_airdrop' = ac_airdrop + 1
                    /\ UNCHANGED ac_pc
               ELSE /\ ac_pc' = "eligibility"
                    /\ UNCHANGED ac_airdrop
            /\ UNCHANGED ac_wallet
    /\ UNCHANGED <<notAirdropVars, ac_registry, ac_claimed, ac_args,
                   ac_airdrops>>

\* check_eligibility answering: an exception ends the run without stats
EligibilityAnswered(outcome) ==
    /\ ac_pc = "eligibility"
    /\ CASE outcome = "raised" ->
                /\ ac_pc' = "raised"
                /\ UNCHANGED <<ac_airdrop, ac_stats>>
         [] outcome = "ineligible" ->
                /\ ac_stats' = [ac_stats EXCEPT !.ineligible = @ + 1]
                /\ ac_airdrop' = ac_airdrop + 1
                /\ ac_pc' = "airdrop"
         [] OTHER ->
                /\ ac_stats' = [ac_stats EXCEPT !.eligible = @ + 1]
                /\ IF ac_args.check_only
                   THEN /\ ac_airdrop' = ac_airdrop + 1
                        /\ ac_pc' = "airdrop"
                   ELSE /\ ac_pc' = "claim"
                        /\ UNCHANGED ac_airdrop
    /\ UNCHANGED <<notAirdropVars, ac_registry, ac_claimed, ac_args,
                   ac_airdrops, ac_wallet>>

\* _execute_claim answering after the sleep: it catches its exceptions and
\* returns a boolean; a success puts the claim on record
ClaimExecuted(success) ==
    /\ ac_pc = "claim"
    /\ ac_stats' = IF success
                   THEN [ac_stats EXCEPT !.claimed = @ + 1]
                   ELSE [ac_stats EXCEPT !.failed = @ + 1]
    /\ ac_claimed' = IF success
                     THEN ac_claimed \cup {<<AirdropWallets[ac_wallet],
                                             ac_airdrops[ac_airdrop]>>}
                     ELSE ac_claimed
    /\ ac_airdrop' = ac_airdrop + 1
    /\ ac_pc' = "airdrop"
    /\ UNCHANGED <<notAirdropVars, ac_registry, ac_args, ac_airdrops,
                   ac_wallet>>

InitAirdrop ==
    /\ command = "fund"
    /\ InitWorkerVars
    /\ InitOrchVars
    /\ InitThrottleVars
    /\ InitIPVars
    /\ InitUAVars
    /\ InitSchedVars
    /\ InitPlanVars
    /\ InitFundVars
    /\ InitBackoffVars
    /\ ac_registry \in Registries
    /\ ac_claimed \in ClaimedBefore
    /\ ac_pc = "init"
    /\ ac_args = <<>>
    /\ ac_airdrops = <<>>
    /\ ac_wallet = 0
    /\ ac_airdrop = 0
    /\ ac_stats = <<>>

NextAirdropRun ==
    \/ \E airdrop_name \in AirdropNames, check_only \in BOOLEAN :
            CheckAndClaimAirdrops(airdrop_name, check_only)
    \/ \E skip \in BOOLEAN : NextWallet(skip)
    \/ NextAirdrop
    \/ \E outcome \in EligibilityOutcomes : EligibilityAnswered(outcome)
    \/ \E success \in BOOLEAN : ClaimExecuted(success)

SpecAirdrop == InitAirdrop /\ [][NextAirdropRun]_vars

-----------------------------------------------------------------------------
(* Properties of claim_from_faucet and execute_action.                      *)

\* task t starts a call in this step
Starts(t) == pc[t] = "idle" /\ pc'[t] # "idle"

\* the idempotency key of the call task t is in (or has just started)
KeyOfArgs(a, t) == GenerateIdempotencyKey(a[2], a[1], a[3], t)

\* s is a prefix of q
IsPrefix(s, q) == Len(s) <= Len(q) /\ SubSeq(q, 1, Len(s)) = s

\* e occurs in sequence s before position i
Before(s, e, i) == \E j \in 1..(i - 1) : s[j] = e

\* C1: a claim_from_faucet call started while the request of the same
\* (faucet, wallet, chain) and the same calendar day is recorded as
\* 'success' is skipped: it returns at once, sends no external request and
\* creates or changes no record.
C1_IdempotentSkip ==
    [][\A t \in Tasks :
          (command = "fund" /\ Starts(t)) =>
              LET key == KeyOfArgs(args'[t], now)
              IN  (key \in DOMAIN faucet_requests
                     /\ faucet_requests[key].status = "success") =>
                      /\ pc'[t] = "done"
                      /\ result'[t] = "true"
                      /\ trace'[t] = <<"idempotency">>
                      /\ faucet_requests' = faucet_requests
                      /\ external_calls' = external_calls
                      /\ faucet_cooldowns' = faucet_cooldowns]_vars

\* a second call of the day was skipped after the first one succeeded with
\* one external request
C1_Witness ==
    \E t \in Tasks :
        /\ command = "fund"
        /\ pc[t] = "done"
        /\ result[t] = "true"
        /\ trace[t] = <<"idempotency">>
        /\ KeyOfArgs(args[t], now) \in DOMAIN faucet_requests
        /\ faucet_requests[KeyOfArgs(args[t], now)].status = "success"
        /\ external_calls[KeyOfArgs(args[t], now)] = 1

\* the transitions of a persisted status
StatusMoves ==
    {<<"pending", "in_progress">>, <<"in_progress", "success">>,
     <<"in_progress", "failed">>}

TransientErrors == {"rate_limited", "server_error"}

\* the external calls a call made
CallsIn(tr) == Cardinality({i \in 1..Len(tr) : tr[i] = "call"})

\* C3: a work unit whose external call failed with a transient error is
\* recorded as failed only after max_retries attempts, and the attempts
\* counter never exceeds max_retries.
C3_BoundedRetry ==
    /\ \A t \in Tasks :
          (command = "fund" /\ pc[t] = "done" /\ last_error[t] \in TransientErrors)
              => CallsIn(trace[t]) = max_retries
    /\ \A k \in DOMAIN faucet_requests : faucet_requests[k].attempts <= max_retries

\* C6: two concurrent execute_action calls for the same (wallet,
\* action_type) are never both inside the adapter call.
C6_NoDoubleExecution ==
    \A t1, t2 \in Tasks :
        (command = "actions" /\ t1 # t2 /\ pc[t1] = "adapter" /\ pc[t2] = "adapter")
            => <<args[t1][1], args[t1][2]>> # <<args[t2][1], args[t2][2]>>

\* the hours at which _check_cooldown is evaluated
Hours == 0..(MaxTime + 48)

\* C7: for a cooldown record written at t with cooldown c, _check_cooldown
\* reports in-cooldown at every hour before t + c and not-in-cooldown at
\* every hour after t + c; without a record it reports not-in-cooldown.
C7_CooldownBoundary ==
    \A w \in Wallets, f \in Faucets, c \in Chains, n \in Hours :
        LET hours == FaucetConfig(f).cooldown_hours
            chk == CheckCooldown(faucet_cooldowns, f, w, c, hours, n)[1]
        IN  IF <<f, w, c>> \notin DOMAIN faucet_cooldowns
            THEN chk = FALSE
            ELSE LET t == faucet_cooldowns[<<f, w, c>>].last_request_at
                 IN  /\ n < t + hours => chk = TRUE
                     /\ n > t + hours => chk = FALSE

\* one record is inside its cooldown and another one is past it
C7_Witness ==
    \E k1, k2 \in DOMAIN faucet_cooldowns :
        /\ now > faucet_cooldowns[k1].last_request_at
        /\ CheckCooldown(faucet_cooldowns, k1[1], k1[2], k1[3], 0, now)[1]
        /\ ~CheckCooldown(faucet_cooldowns, k2[1], k2[2], k2[3], 0, now)[1]

\* an external request for key k goes out in this step
Sends(k) ==
    /\ k \in DOMAIN external_calls'
    /\ external_calls'[k] > (IF k \in DOMAIN external_calls THEN external_calls[k] ELSE 0)

\* C8: no external request for (faucet, wallet, chain) goes out at or before
\* last success + nominal cooldown * (1 + OVER_COOLDOWN_JITTER_MIN).
C8_OverCooldown ==
    [][\A k \in DOMAIN external_calls' :
          (command = "fund" /\ Sends(k) /\ <<k[1], k[2], k[3]>> \in DOMAIN faucet_cooldowns)
              => 100 * (now - faucet_cooldowns[<<k[1], k[2], k[3]>>].last_request_at)
                    > FaucetConfig(k[1]).cooldown_hours * (100 + OverCooldownJitterMinPct)]_vars

\* the call of task t ends with a successful external request in this step
Succeeds(t) ==
    command = "fund" /\ pc[t] = "http" /\ pc'[t] = "done" /\ result'[t] = "true"

\* C9: the cooldown table changes exactly in the steps in which an external
\* faucet request succeeded, and then only the record of that (faucet,
\* wallet, chain), which gets last_request_at = now and cooldown_until =
\* now + cooldown; skipped and failed calls leave the table unchanged.
C9_CooldownOnlyOnSuccess ==
    [][/\ faucet_cooldowns' # faucet_cooldowns => \E t \in Tasks : Succeeds(t)
       /\ \A t \in Tasks :
             Succeeds(t) =>
                 LET k == <<args[t][2], args[t][1], args[t][3]>>
                 IN  /\ k \in DOMAIN faucet_cooldowns'
                     /\ faucet_cooldowns'[k].last_request_at = now
                     /\ faucet_cooldowns'[k].cooldown_until =
                           now + FaucetConfig(k[1]).cooldown_hours
                     /\ faucet_cooldowns'[k].requests_today >= 1
                     /\ \A x \in DOMAIN faucet_cooldowns \ {k} :
                           faucet_cooldowns'[x] = faucet_cooldowns[x]]_vars

\* a call failed on a 429 and left no cooldown record, while a successful
\* call of another faucet wrote one
C9_Witness ==
    \E t \in Tasks :
        /\ pc[t] = "done"
        /\ result[t] = "false"
        /\ last_error[t] = "rate_limited"
        /\ <<args[t][2], args[t][1], args[t][3]>> \notin DOMAIN faucet_cooldowns
        /\ DOMAIN faucet_cooldowns # {}

\* C10 as stated: in every call the skip veto is drawn only after the
\* cooldown check (and the idempotency look-up, where there is one), and
\* the external call comes after the cooldown check, the veto and the delay.
C10_CheckOrder ==
    \A t \in Tasks : \A i \in 1..Len(trace[t]) :
        /\ trace[t][i] = "cooldown" /\ command = "fund"
              => Before(trace[t], "idempotency", i)
        /\ trace[t][i] = "skip_veto" => Before(trace[t], "cooldown", i)
        /\ trace[t][i] = "call" =>
              /\ Before(trace[t], "cooldown", i)
              /\ Before(trace[t], "skip_veto", i)
              /\ Before(trace[t], "delay", i)

\* C10 as amended: claim_from_faucet performs idempotency look-up, cooldown
\* check, skip veto, (the jitter delay when enable_jitter is set,) external
\* call, in this order; execute_action performs skip veto, cooldown check,
\* delay, external call, in this order.
C10_CheckOrderAmended ==
    \A t \in Tasks :
        IF command = "fund"
        THEN IsPrefix(trace[t],
                      IF enable_jitter
                      THEN <<"idempotency", "cooldown", "skip_veto", "delay", "call">>
                      ELSE <<"idempotency", "cooldown", "skip_veto", "call">>)
        ELSE IsPrefix(trace[t], <<"skip_veto", "cooldown", "delay", "call">>)

\* an action reached the adapter after veto, cooldown check and delay
C10_Witness ==
    \E t \in Tasks :
        /\ command = "actions"
        /\ pc[t] = "adapter"
        /\ trace[t] = <<"skip_veto", "cooldown", "delay", "call">>

-----------------------------------------------------------------------------
(* Properties of fund_wallets and run_pipeline.                             *)

\* the units inside the semaphore: admitted and not yet returned
InFlight == {u \in DOMAIN unit : unit[u].st = "running"}

\* C4: at no time are more than `concurrency` units of work of a run in
\* flight (inside the semaphore), for fund_wallets within a shard and for
\* run_pipeline over the whole run; the semaphore accounts for each of them.
C4_BoundedConcurrency ==
    orch_pc # "init" =>
        /\ Cardinality(InFlight) <= concurrency
        /\ semaphore = concurrency - Cardinality(InFlight)

\* the semaphore is exhausted while a further unit waits to enter
C4_Witness ==
    /\ orch_pc = "gather"
    /\ Cardinality(InFlight) = concurrency
    /\ semaphore = 0
    /\ \E u \in DOMAIN unit : unit[u].st = "waiting"

\* the shards that have been started
Started == {s \in DOMAIN shard_log : shard_log[s].started_at >= 0}

\* C5: with shard_stagger, fund_wallets visits the shards in ascending
\* shard id, one at a time: no wallet of a shard is started before every
\* wallet of each lower shard has finished; between two shards it sleeps
\* stagger_seconds plus a jitter of at most 30 % of it, and the next shard
\* starts no earlier than that; it does not sleep after the last shard.
C5_ShardOrderAndStagger ==
    (command = "fund" /\ shard_stagger /\ orch_pc # "init") =>
        /\ \A s1, s2 \in DOMAIN shard_log :
              (s1 < s2 /\ s2 \in Started) =>
                  /\ shard_log[s1].finished_at >= 0
                  /\ \A u \in Members(Shards[s1]) : unit[u].st = "finished"
                  /\ shard_log[s1].sleep >= stagger_seconds
                  /\ shard_log[s2].started_at >=
                        shard_log[s1].finished_at + shard_log[s1].sleep
        /\ \A s \in DOMAIN shard_log :
              /\ s \notin Started =>
                    \A u \in Members(Shards[s]) : unit[u].st = "none"
              /\ shard_log[s].sleep >= 0 =>
                    /\ stagger_seconds <= shard_log[s].sleep
                    /\ 10 * shard_log[s].sleep <= 13 * stagger_seconds
                    /\ s < MaxKey(Shards)
        /\ orch_pc = "stagger" => shard_id < MaxKey(Shards)
        /\ orch_pc = "done" =>
              /\ Started = DOMAIN shard_log
              /\ shard_log[MaxKey(Shards)].sleep = -1

\* all three shards were visited, each after a sleep, and the run is over
C5_Witness ==
    /\ command = "fund"
    /\ shard_stagger
    /\ orch_pc = "done"
    /\ Cardinality(DOMAIN shard_log) = 3
    /\ \A s \in DOMAIN shard_log :
          s < MaxKey(Shards) => shard_log[s].sleep > stagger_seconds

\* a unit of the run ended in a failure: it returned False or raised
SomeUnitFailed ==
    \/ \E u \in DOMAIN unit :
          unit[u].st = "finished" /\ unit[u].res \in {"false", "raised"}
    \/ command = "fund" /\ orch_pc # "init" /\ stats.failed > 0

\* the run has returned its statistics, every unit having been run
RunReturned ==
    /\ orch_pc = "done"
    /\ \A u \in DOMAIN unit : unit[u].st = "finished"
    /\ IF command = "fund"
       THEN stats.total = Len(FundedWallets)
       ELSE stats.total = Len(PipelineWallets) * Len(PipelineActions)

\* C11: a unit that returns a failure or raises never aborts the run: a run
\* that is over has run every unit and returned its statistics, and after a
\* failure of a unit the run still gets there.
C11_FailureIsolation ==
    /\ [](orch_pc \in {"init", "gather", "stagger", "done"})
    /\ [](orch_pc = "done" => RunReturned)
    /\ (SomeUnitFailed ~> RunReturned)

\* a pipeline run returned although one unit raised and another one
\* returned False, and a later unit succeeded
C11_Witness ==
    /\ command = "actions"
    /\ RunReturned
    /\ \E u1, u2, u3 \in DOMAIN unit :
          /\ unit[u1].res = "raised"
          /\ unit[u2].res = "false"
          /\ unit[u3].res = "true"

\* C12: when run_pipeline returns, every unit it dispatched is counted in
\* exactly one of success, failed and skipped, units that raised included.
C12_AllCounted ==
    (command = "actions" /\ orch_pc = "done") =>
        stats.total = stats.success + stats.failed + stats.skipped

\* the sum of f over the set S
RECURSIVE SumOver(_, _)
SumOver(f, S) ==
    IF S = {}
    THEN 0
    ELSE LET x == CHOOSE y \in S : TRUE
         IN  f[x] + SumOver(f, S \ {x})

\* the units of the run that were not executed because of the idempotency
\* check, the cooldown check or the skip veto
SkippedUnits ==
    IF command = "actions"
    THEN Cardinality({u \in DOMAIN unit : unit[u].why = "skipped"})
    ELSE SumOver([s \in DOMAIN shard_log |-> shard_log[s].skips],
                 DOMAIN shard_log)

\* the skips the statistics report
SkipsReported ==
    IF "skipped" \in DOMAIN stats THEN stats.skipped ELSE 0

\* C13: the statistics a run returns report the units skipped by the
\* idempotency check, the cooldown check or the skip veto as skips, and
\* count none of them as a success or a failure.
C13_SkipAccounting ==
    orch_pc = "done" =>
        /\ SkipsReported >= SkippedUnits
        /\ stats.success + stats.failed <= Cardinality(DOMAIN unit) - SkippedUnits

-----------------------------------------------------------------------------
(* Properties of AutoThrottle.                                              *)

\* this step is a record_request call for id
Recorded(id) ==
    /\ th_records' = th_records + 1
    /\ th_call'.op = "record_request"
    /\ th_call'.identifier = id

\* this step is a record_request call for id that applies a throttle
Triggered(id) ==
    /\ Recorded(id)
    /\ th_call'.status_code \in ThrottleStatus
    /\ ShouldThrottle(request_history'[id])

\* this step is an is_paused call for id
IsPausedStep(id) ==
    /\ th_records' = th_records
    /\ th_now' = th_now
    /\ th_call'.op = "is_paused"
    /\ th_call'.identifier = id

\* id has the pause (pause_until, duration)
HasPause(paused, id, pause) == id \in DOMAIN paused /\ paused[id] = pause

\* C14: record_request never creates or changes a pause while the in-window
\* history of the identifier (after the observation is appended and the
\* window pruned) holds fewer than min_samples observations, whatever the
\* errors and status codes.
C14_MinSamplesGuard ==
    [][\A id \in Identifiers :
          (Recorded(id) /\ Len(request_history'[id]) < min_samples)
              => paused_identifiers' = paused_identifiers]_vars

\* an error with a throttling status was recorded on a history of errors
\* only that is one short of min_samples, later than the first second, and
\* the identifier has no pause
C14_Witness ==
    \E id \in Identifiers :
        /\ th_call.op = "record_request"
        /\ th_call.identifier = id
        /\ th_call.status_code \in ThrottleStatus
        /\ th_now > 0
        /\ id \in DOMAIN th_fed
        /\ th_fed[id].n >= min_samples
        /\ Len(request_history[id]) = min_samples - 1
        /\ ErrorCount(request_history[id]) = min_samples - 1
        /\ id \notin DOMAIN paused_identifiers

\* C15 as stated: from no history and no pause, the min_samples-th error
\* observation with a throttling status gives a pause of the base duration
\* ending base seconds after the trigger, and there is no pause before it.
C15_FirstTrigger ==
    [][\A id \in Identifiers :
          Recorded(id) =>
              /\ th_fed'[id].n < min_samples
                    => id \notin DOMAIN paused_identifiers'
              /\ (th_fed'[id].n = min_samples /\ th_fed'[id].errors)
                    => HasPause(paused_identifiers', id,
                                <<th_now + pause_duration_seconds,
                                  pause_duration_seconds>>)]_vars

\* C15 amended: the same, when the min_samples observations all lie within
\* error_window_seconds of the last one (none of them was pruned).
C15_FirstTriggerInWindow ==
    [][\A id \in Identifiers :
          Recorded(id) =>
              /\ th_fed'[id].n < min_samples
                    => id \notin DOMAIN paused_identifiers'
              /\ (/\ th_fed'[id].n = min_samples
                  /\ th_fed'[id].errors
                  /\ Len(request_history'[id]) = min_samples)
                    => HasPause(paused_identifiers', id,
                                <<th_now + pause_duration_seconds,
                                  pause_duration_seconds>>)]_vars

\* the min_samples-th error observation of an identifier has just given it
\* its first pause, later than the first second
C15_Witness ==
    \E id \in Identifiers :
        /\ th_call.op = "record_request"
        /\ th_call.identifier = id
        /\ th_fed[id].n = min_samples
        /\ th_fed[id].errors
        /\ th_now > 0
        /\ Len(request_history[id]) = min_samples
        /\ HasPause(paused_identifiers, id,
                    <<th_now + pause_duration_seconds,
                      pause_duration_seconds>>)

\* C16: a trigger for an identifier whose last pause, of duration d, has
\* expired gives a pause of duration min(d * backoff_multiplier, max),
\* whether or not is_paused was called since the expiry.
C16_BackoffAfterExpiry ==
    [][\A id \in Identifiers :
          (Triggered(id) /\ id \in DOMAIN th_last /\ th_now >= th_last[id][1])
              => paused_identifiers'[id][2]
                     = Min(Backoff(th_last[id][2], backoff_multiplier),
                           max_pause_duration_seconds)]_vars

C18_LazyExpiry ==
    [][\A id \in Identifiers :
          IsPausedStep(id) =>
              IF id \notin DOMAIN paused_identifiers
              THEN /\ th_call'.ret = <<FALSE, None>>
                   /\ paused_identifiers' = paused_identifiers
              ELSE IF th_now < paused_identifiers[id][1]
                   THEN /\ th_call'.ret[1] = TRUE
                        /\ th_call'.ret[2] = paused_identifiers[id][1] - th_now
                        /\ th_call'.ret[2] >= 0
                        /\ paused_identifiers' = paused_identifiers
                   ELSE /\ th_call'.ret = <<FALSE, None>>
                        /\ paused_identifiers'
                               = Del(paused_identifiers, id)]_vars

\* is_paused has reported an identifier unpaused whose pause had expired,
\* and the entry is gone
C18_Witness ==
    \E id \in Identifiers :
        /\ th_call.op = "is_paused"
        /\ th_call.identifier = id
        /\ th_call.ret = <<FALSE, None>>
        /\ id \in DOMAIN th_last
        /\ th_now >= th_last[id][1]
        /\ id \notin DOMAIN paused_identifiers

-----------------------------------------------------------------------------
(* Properties of IPManager.                                                 *)

\* this step is a get_proxy_for_wallet call for key
WalletCall(key) ==
    /\ ip_now' = ip_now
    /\ ip_call'.op = "get_proxy_for_wallet"
    /\ ip_call'.key = key

\* C19 as stated: with a non-empty pool, a get_proxy_for_wallet call made
\* less than the stickiness window of its traffic type after the previous
\* call for the same wallet and traffic type, with no force_rotation in
\* between, returns the origin the previous call returned (the stored one)
\* and leaves the stored (origin, assigned_at) unchanged.
C19_Stickiness ==
    [][\A key \in WalletKeys :
          (/\ WalletCall(key)
           /\ proxy_list # <<>>
           /\ key \in DOMAIN ip_prev
           /\ ip_now - ip_prev[key] < StickyHours(key[2]))
              => /\ ip_call'.ret = traffic_type_proxy[key][1]
                 /\ traffic_type_proxy'[key] = traffic_type_proxy[key]]_vars

\* C19 amended: a get_proxy_for_wallet call made less than
\* window * (1 - rotation_jitter_pct) after the stored assignment was made
\* returns the stored origin and leaves the assignments unchanged.
C19_StickinessSinceAssignment ==
    [][\A key \in WalletKeys :
          (/\ WalletCall(key)
           /\ key \in DOMAIN traffic_type_proxy
           /\ 100 * (ip_now - traffic_type_proxy[key][2])
                  < StickyHours(key[2]) * (100 - rotation_jitter_pct))
              => /\ ip_call'.ret = traffic_type_proxy[key][1]
                 /\ traffic_type_proxy' = traffic_type_proxy]_vars

\* a call for general traffic, made now, has returned an origin assigned
\* three hours ago
C19_Witness ==
    \E key \in WalletKeys :
        /\ key[2] = "general"
        /\ key \in DOMAIN ip_prev
        /\ ip_prev[key] = ip_now
        /\ ip_call.op = "get_proxy_for_wallet"
        /\ ip_call.key = key
        /\ key \in DOMAIN traffic_type_proxy
        /\ ip_call.ret = traffic_type_proxy[key][1]
        /\ traffic_type_proxy[key][2] = ip_now - 3

\* C20: with an empty proxy list, get_proxy_for_wallet and
\* get_proxy_for_shard return None, do not raise, and no assignment map
\* ever gets an entry.
C20_EmptyPool ==
    proxy_list = <<>> =>
        /\ traffic_type_proxy = <<>>
        /\ shard_to_proxy = <<>>
        /\ ip_call.op \in {"get_proxy_for_wallet", "get_proxy_for_shard"}
              => ip_call.ret = None

\* with an empty proxy list, a wallet has been asked for and a shard has
\* just been asked for, an hour or more after the start
C20_Witness ==
    /\ proxy_list = <<>>
    /\ ip_now > 0
    /\ DOMAIN ip_prev = WalletKeys
    /\ ip_call.op = "get_proxy_for_shard"
    /\ ip_call.ret = None

-----------------------------------------------------------------------------
(* Properties of UserAgentRotator.                                          *)

\* this step is a get_headers call that follows a get_headers call with the
\* same arguments, with no rotate and no clock advance in between
RepeatedGetHeaders ==
    /\ ua_call.op = "get_headers"
    /\ ua_call'.op = "get_headers"
    /\ ua_call'.args = ua_call.args
    /\ ua_now' = ua_now

\* C21: the second of two consecutive get_headers calls with the same
\* arguments, with no clock advance and no rotate between them, returns the
\* header set of the first and leaves session_ua unchanged.
C21_HeadersRoundTrip ==
    [][RepeatedGetHeaders =>
          /\ ua_call'.ret = ua_call.ret
          /\ session_ua' = session_ua]_vars

\* get_headers was called twice in a row with a session id and extra
\* headers, and returned the User-Agent assigned an hour or more before
C21_Witness ==
    /\ ua_call.op = "get_headers"
    /\ ua_call.repeat
    /\ ua_call.args[1] # None
    /\ ua_call.args[3] # NoShard
    /\ ua_call.args[4] # <<>>
    /\ LET identifier ==
               UAIdentifier(ua_call.args[1], ua_call.args[2], ua_call.args[3])
       IN  /\ identifier \in DOMAIN session_ua
           /\ session_ua[identifier][2] < ua_now
           /\ ua_call.ret["User-Agent"] = session_ua[identifier][1]

-----------------------------------------------------------------------------
(* Properties of SchedulerEntropy.                                          *)

\* C22: should_execute_now returns false whenever the current weekday is in
\* off_days, for every wallet and every value of the random draws, and
\* makes no random draw.
C22_OffDayGate ==
    (sched_call.op = "should_execute_now" /\ Weekday(sched_now) \in off_days)
        => (sched_call.ret = FALSE /\ sched_call.draws = 0)

\* should_execute_now was called for a wallet without skip-days on a
\* Saturday that is an off-day, with the lulls respected, and returned false
C22_Witness ==
    /\ sched_call.op = "should_execute_now"
    /\ Weekday(sched_now) = 5
    /\ Weekday(sched_now) \in off_days
    /\ sched_call.wallet_address # None
    /\ sched_call.respect_lulls
    /\ wallet_skip_days = <<>>
    /\ sched_call.ret = FALSE

-----------------------------------------------------------------------------
(* Properties of AntiDetection.get_request_config.                          *)

\* the step is a get_request_config call whose result differs from the
\* previous one's
PlanStep ==
    plan_call' # plan_call /\ plan_call'.op = "get_request_config"

\* the identifier the throttle is asked about for a call: "shard_<id>" if a
\* shard is given, else the wallet
PlanSubject(call) ==
    IF call.shard # NoShard THEN ShardName(call.shard) ELSE call.wallet_address

\* C23: when should_execute_now returns false, get_request_config returns
\* should_proceed = false with no proxy, no headers and no delay, and leaves
\* the proxy assignments, the User-Agent assignments and the pauses as they
\* were.
C23_ShortCircuit ==
    [][(PlanStep /\ ~plan_call'.gate) =>
          /\ plan_call'.ret = [proxy |-> None, headers |-> <<>>,
                               should_proceed |-> FALSE, delay_seconds |-> 0]
          /\ UNCHANGED <<traffic_type_proxy, shard_to_proxy, session_ua,
                         paused_identifiers>>]_vars

\* the gate refused a request of a coordinator with proxies while nothing
\* was assigned yet and the request's identifier had an expired pause on
\* record, which is still there
C23_Witness ==
    /\ plan_call.op = "get_request_config"
    /\ ~plan_call.gate
    /\ proxy_list # <<>>
    /\ traffic_type_proxy = <<>>
    /\ session_ua = <<>>
    /\ PlanSubject(plan_call) \in DOMAIN paused_identifiers
    /\ th_now >= paused_identifiers[PlanSubject(plan_call)][1]

\* C24 as stated: whenever the throttle identifier of a request has an
\* unexpired pause, get_request_config returns should_proceed = false and
\* the seconds remaining as delay_seconds; without an unexpired pause a
\* request the gate allowed gets should_proceed = true and delay 0.
C24_ThrottleOverride ==
    plan_call.op = "get_request_config" =>
        IF Unexpired(paused_identifiers, PlanSubject(plan_call), th_now)
        THEN /\ plan_call.ret.should_proceed = FALSE
             /\ plan_call.ret.delay_seconds =
                    paused_identifiers[PlanSubject(plan_call)][1] - th_now
        ELSE plan_call.gate =>
                 /\ plan_call.ret.should_proceed = TRUE
                 /\ plan_call.ret.delay_seconds = 0

\* C24, amended: for a request the gate allowed, an unexpired pause of its
\* throttle identifier gives should_proceed = false and the seconds
\* remaining as delay_seconds, and no unexpired pause gives should_proceed =
\* true and delay 0; a request the gate refused gets delay 0 whatever the
\* pauses.
C24_ThrottleOverrideWhenAllowed ==
    plan_call.op = "get_request_config" =>
        IF plan_call.gate
        THEN IF Unexpired(paused_identifiers, PlanSubject(plan_call), th_now)
             THEN /\ plan_call.ret.should_proceed = FALSE
                  /\ plan_call.ret.delay_seconds =
                         paused_identifiers[PlanSubject(plan_call)][1] - th_now
             ELSE /\ plan_call.ret.should_proceed = TRUE
                  /\ plan_call.ret.delay_seconds = 0
        ELSE /\ plan_call.ret.should_proceed = FALSE
             /\ plan_call.ret.delay_seconds = 0

\* a request for a shard that the gate allowed was stopped by the unexpired
\* pause of the shard
C24_Witness ==
    /\ plan_call.op = "get_request_config"
    /\ plan_call.gate
    /\ plan_call.shard # NoShard
    /\ Unexpired(paused_identifiers, "shard_0", th_now)
    /\ plan_call.ret.should_proceed = FALSE
    /\ plan_call.ret.delay_seconds > 0

\* C27: while the identifier under which the faucet workflow records a
\* wallet's outcomes has an unexpired pause, the wallet's faucet request
\* plan (no shard, traffic type faucet) returns should_proceed = false.
C27_SameIdentity ==
    (/\ plan_call.op = "get_request_config"
     /\ plan_call.shard = NoShard
     /\ plan_call.traffic_type = "faucet"
     /\ Unexpired(paused_identifiers,
                  FaucetIdentifier(plan_call.wallet_address), th_now))
        => plan_call.ret.should_proceed = FALSE

-----------------------------------------------------------------------------
(* Properties of get_chain_faucets and fund_wallet.                         *)

\* the faucets of a configured list that are not disabled
EnabledEntries(l) ==
    {l[i] : i \in {j \in DOMAIN l : "enabled" \notin DOMAIN l[j] \/ l[j].enabled}}

\* the priority a faucet is configured with
EntryPriority(f) == IF "priority" \in DOMAIN f THEN f.priority ELSE 999

\* the configured faucet of a chain with the given name
EntryNamed(chain, name) ==
    CHOOSE f \in {fw_config[chain][i] : i \in DOMAIN fw_config[chain]} :
        f.name = name

\* the claim_from_faucet calls made for a chain so far
AttemptsOf(chain) ==
    IF chain \in DOMAIN fw_attempts THEN fw_attempts[chain] ELSE <<>>

\* the calls made for a chain went to different enabled faucets of the
\* chain in non-decreasing priority, no faucet left out has a smaller
\* priority than one called, and only the last call can have succeeded
AttemptedInOrder(chain) ==
    LET log == AttemptsOf(chain)
        enabled == EnabledEntries(fw_config[chain])
        called == {EntryNamed(chain, log[i][1]) : i \in DOMAIN log}
    IN  /\ \A i \in DOMAIN log :
               \E f \in enabled : f.name = log[i][1]
        /\ \A i, j \in DOMAIN log :
               i < j => /\ log[i][1] # log[j][1]
                        /\ EntryPriority(EntryNamed(chain, log[i][1]))
                              <= EntryPriority(EntryNamed(chain, log[j][1]))
                        /\ log[i][2] # "true"
        /\ \A f \in enabled \ called, g \in called :
               EntryPriority(g) <= EntryPriority(f)

\* C25: get_chain_faucets returns exactly the enabled faucets of the chain
\* in non-decreasing priority; fund_wallet calls them in that order and
\* makes no call for a chain after the first one that returned True; a
\* chain is reported successful iff some call for it returned True, and a
\* chain reported unsuccessful had every enabled faucet called.
C25_SelectionOrder ==
    /\ fw_pc = "claim" =>
           /\ {fw_faucets[i] : i \in DOMAIN fw_faucets}
                  = EnabledEntries(fw_config[Head(fw_chains)])
           /\ Len(fw_faucets)
                  = Cardinality(EnabledEntries(fw_config[Head(fw_chains)]))
           /\ \A i, j \in DOMAIN fw_faucets :
                  i < j => EntryPriority(fw_faucets[i])
                               <= EntryPriority(fw_faucets[j])
           /\ Len(AttemptsOf(Head(fw_chains))) = fw_pos - 1
           /\ \A i \in DOMAIN AttemptsOf(Head(fw_chains)) :
                  /\ AttemptsOf(Head(fw_chains))[i][1] = fw_faucets[i].name
                  /\ AttemptsOf(Head(fw_chains))[i][2] # "true"
    /\ \A chain \in DOMAIN fw_config :
           /\ fw_pc # "init" => AttemptedInOrder(chain)
           /\ chain \in DOMAIN fw_results =>
                  /\ fw_results[chain] =
                         (\E i \in DOMAIN AttemptsOf(chain) :
                              AttemptsOf(chain)[i][2] = "true")
                  /\ ~fw_results[chain] =>
                         Len(AttemptsOf(chain))
                             = Cardinality(EnabledEntries(fw_config[chain]))
           /\ (fw_pc = "done" /\ chain \notin DOMAIN fw_results) =>
                  /\ AttemptsOf(chain) = <<>>
                  /\ EnabledEntries(fw_config[chain]) = {}

\* fund_wallet returned for a chain configured with three enabled faucets
\* that are not listed by priority: the first call did not succeed, the
\* second did, the third faucet was not called and the chain is reported
\* successful
C25_Witness ==
    /\ fw_pc = "done"
    /\ Len(fw_config["c1"]) = 3
    /\ Cardinality(EnabledEntries(fw_config["c1"])) = 3
    /\ EntryPriority(fw_config["c1"][1]) > EntryPriority(fw_config["c1"][3])
    /\ Len(AttemptsOf("c1")) = 2
    /\ AttemptsOf("c1")[1][2] # "true"
    /\ AttemptsOf("c1")[2][2] = "true"
    /\ AttemptsOf("c1")[1][1] = fw_config["c1"][3].name
    /\ fw_results["c1"] = TRUE

-----------------------------------------------------------------------------
(* Properties of check_and_claim_airdrops.                                  *)

\* C26: when check_and_claim_airdrops returns its stats after a run over
\* A >= 1 airdrops, total_checks + A * skipped = A * total_wallets, and for
\* a single named airdrop total_checks + skipped = total_wallets.
C26_CheckAccounting ==
    (ac_pc = "returned" /\ Len(ac_airdrops) >= 1) =>
        /\ ac_stats.total_checks + Len(ac_airdrops) * ac_stats.skipped
               = Len(ac_airdrops) * ac_stats.total_wallets
        /\ ac_args.airdrop_name # None =>
               ac_stats.total_checks + ac_stats.skipped
                   = ac_stats.total_wallets

\* a run over two airdrops returned after one wallet was vetoed and the
\* other was checked against both airdrops, one of them claimed by it
\* before the run
C26_Witness ==
    /\ ac_pc = "returned"
    /\ Len(ac_airdrops) = 2
    /\ ac_stats.skipped = 1
    /\ ac_stats.total_checks = 2
    /\ ac_stats.eligible + ac_stats.ineligible = 1

-----------------------------------------------------------------------------
(* Properties of deferred faucet requests and of adapter results.           *)

\* the call of task t ends in this step because the request plan said not
\* to proceed: at once when no delay came with it, or after the sleep
DeferredStep(t) ==
    /\ command = "fund"
    /\ pc'[t] = "done"
    /\ \/ pc[t] = "deferred_sleep"
       \/ /\ pc[t] = "attempt"
          /\ last_error'[t] = "request_failed"
          /\ FaucetConfig(args[t][2]).method # "CLI"

\* C28: a claim_from_faucet call that ends because the request plan said
\* not to proceed has made no external call, leaves no request recorded as
\* 'failed', and leaves no request under the day's idempotency key that
\* would stop a later call of the day.
C28_DeferralNotFailure ==
    [][\A t \in Tasks :
          DeferredStep(t) =>
              /\ external_calls'[request_id[t]] = 0
              /\ \/ request_id[t] \notin DOMAIN faucet_requests'
                 \/ faucet_requests'[request_id[t]].status # "failed"
              /\ ~ExistingRequest(faucet_requests', request_id[t])]_vars

\* C29: a wallet action is recorded as 'success' only when the result
\* record the adapter returned reports success, and a successful action
\* that puts the (wallet, action_type) in cooldown has such a result.
C29_SuccessReflectsResult ==
    \A i \in DOMAIN wallet_actions :
        wallet_actions[i].status = "success"
            => wallet_actions[i].result = "result_success"

-----------------------------------------------------------------------------
(* Properties of concurrent claim_from_faucet calls.                        *)

\* where a call is once its request record is inserted
AfterInsert == {"attempt", "deferred_sleep", "jitter_sleep", "http"}

\* C30: of the claim_from_faucet calls under way for one idempotency key,
\* whatever the interleaving of their database sessions, at most one has
\* inserted the request record and is on the way to the external request,
\* and at most one external request was ever sent for the key.
C30_OneCallPerKey ==
    /\ \A t1, t2 \in Tasks :
           (t1 # t2 /\ pc[t1] \in AfterInsert /\ pc[t2] \in AfterInsert)
               => request_id[t1] # request_id[t2]
    /\ \A key \in DOMAIN external_calls : external_calls[key] <= 1

\* of two calls for the same faucet, wallet and chain, one inserted the
\* request record and has sent the request; the other passed the look-up,
\* the cooldown check and the veto, met the UNIQUE constraint on its insert
\* and ended with the exception
C30_Witness ==
    \E t1, t2 \in Tasks :
        /\ t1 # t2
        /\ pc[t1] = "http"
        /\ external_calls[request_id[t1]] = 1
        /\ pc[t2] = "done"
        /\ result[t2] = "raised"
        /\ args[t2] = args[t1]
        /\ trace[t2] = <<"idempotency", "cooldown", "skip_veto">>
        /\ faucet_requests[request_id[t1]].status = "in_progress"

-----------------------------------------------------------------------------
(* C31: every started work item reaches a terminal status.                  *)

\* the keys a FaucetRequest can have
RequestKeys ==
    {GenerateIdempotencyKey(f, w, c, d * 24) :
        f \in Faucets, w \in Wallets, c \in Chains, d \in 0..(MaxTime \div 24)}

Terminal == {"success", "failed"}

\* the FaucetRequest with key k exists and is not over
RequestUnfinished(k) ==
    k \in DOMAIN faucet_requests /\ faucet_requests[k].status \notin Terminal

\* the WalletAction with id i exists and is not over
ActionUnfinished(i) ==
    i <= Len(wallet_actions) /\ wallet_actions[i].status \notin Terminal

\* C31: when every await returns and nothing is cancelled, each
\* FaucetRequest created as 'in_progress' and each WalletAction created as
\* 'pending' eventually has status 'success' or 'failed', also when the
\* external call raises: no work item stays 'pending' or 'in_progress'
\* forever (rows are never deleted, so a row that is not unfinished at some
\* later time has a terminal status then).
C31_EventuallyTerminal ==
    /\ \A k \in RequestKeys : []<>(~RequestUnfinished(k))
    /\ \A i \in 1..MaxActions : []<>(~ActionUnfinished(i))

\* an external call raised and its work item was recorded as failed, and
\* another work item ended as a success
C31_Witness ==
    \/ \E k, l \in DOMAIN faucet_requests :
          /\ faucet_requests[k].status = "failed"
          /\ faucet_requests[l].status = "success"
          /\ \E t \in Tasks : pc[t] = "done" /\ last_error[t] = "rate_limited"
    \/ \E i, j \in 1..Len(wallet_actions) :
          /\ wallet_actions[i].status = "failed"
          /\ wallet_actions[j].status = "success"
          /\ \E t \in Tasks : pc[t] = "done" /\ last_error[t] = "adapter_error"

-----------------------------------------------------------------------------
(* C32: the daily cap.                                                      *)

\* C32: for every CooldownRecord, in every reachable state
\* requests_today <= daily_limit.
C32_DailyCap ==
    \A k \in DOMAIN faucet_cooldowns :
        faucet_cooldowns[k].requests_today <= faucet_cooldowns[k].daily_limit

-----------------------------------------------------------------------------
(* C33: the pause duration is bounded.                                      *)

\* C33: for every configuration of base duration, multiplier and maximum,
\* every pause entry has current_pause_duration <=
\* max_pause_duration_seconds and pause_until - time_of_trigger ==
\* current_pause_duration.
C33_PauseBounded ==
    \A identifier \in DOMAIN at_paused :
        /\ at_paused[identifier][2] <= at_config.max_pause_duration_seconds
        /\ at_paused[identifier][1] - at_trigger[identifier]
               = at_paused[identifier][2]

-----------------------------------------------------------------------------
(* C34: the throttle evaluation is gated by the status code.                *)

\* the last element of a non-empty sequence
Last(q) == q[Len(q)]

\* C34: record_request with a status code outside {429, 500, 502, 503, 504}
\* (or none) appends the sample and prunes the window of its identifier,
\* leaves the other histories alone and never creates, extends or removes a
\* pause, whatever is_error and the in-window error rate.
C34_StatusGate ==
    [][\A id \in Identifiers :
          (Recorded(id) /\ th_call'.status_code \notin {429, 500, 502, 503, 504})
              => /\ paused_identifiers' = paused_identifiers
                 /\ request_history'[id] # <<>>
                 /\ Last(request_history'[id])[1] = th_now
                 /\ request_history'[id] =
                        Prune(Append(HistoryOf(request_history, id),
                                     Last(request_history'[id])),
                              th_now - error_window_seconds)
                 /\ \A other \in DOMAIN request_history \ {id} :
                        request_history'[other] = request_history[other]]_vars

\* an error without a status code was recorded on an in-window history of
\* at least min_samples observations whose error rate is at or above the
\* threshold, and the identifier has no pause
C34_Witness ==
    \E id \in Identifiers :
        /\ th_call.op = "record_request"
        /\ th_call.identifier = id
        /\ th_call.status_code = NoStatusCode
        /\ Len(request_history[id]) >= min_samples
        /\ Last(request_history[id])[2]
        /\ 100 * ErrorCount(request_history[id])
              >= error_threshold * Len(request_history[id])
        /\ id \notin DOMAIN paused_identifiers

-----------------------------------------------------------------------------
(* C35: the history window.                                                 *)

\* the samples of h are all inside the window that ends at t, in
\* non-decreasing order of timestamp
InWindow(h, t) ==
    /\ \A i \in DOMAIN h : h[i][1] >= t - error_window_seconds
    /\ \A i, j \in DOMAIN h : i <= j => h[i][1] <= h[j][1]

\* the error rate over the samples of h is at or above the threshold, on at
\* least min_samples samples
RateOver(h) ==
    /\ Len(h) >= min_samples
    /\ 100 * Cardinality({i \in DOMAIN h : h[i][2]}) >= error_threshold * Len(h)

\* C35: immediately after every record_request(identifier, ...) every sample
\* of the identifier's history has timestamp >= now - error_window_seconds,
\* the samples are in non-decreasing timestamp order and the sample just
\* recorded is the last of them; with a throttling status code a pause is
\* stored at this moment exactly when the error rate over these samples
\* reaches the threshold on at least min_samples of them.
C35_HistoryWindow ==
    [][\A id \in Identifiers :
          Recorded(id)
              => /\ request_history'[id] # <<>>
                 /\ InWindow(request_history'[id], th_now)
                 /\ Last(request_history'[id])[1] = th_now
                 /\ IF /\ th_call'.status_code \in {429, 500, 502, 503, 504}
                       /\ RateOver(request_history'[id])
                    THEN /\ id \in DOMAIN paused_identifiers'
                         /\ paused_identifiers'[id][1]
                               = th_now + paused_identifiers'[id][2]
                         /\ th_last'[id] = paused_identifiers'[id]
                    ELSE /\ paused_identifiers' = paused_identifiers
                         /\ th_last' = th_last]_vars

\* a record_request removed older samples of the identifier and left at
\* least min_samples in the window, one of them older than now, over which
\* it stored a pause
C35_Witness ==
    \E id \in Identifiers :
        /\ th_call.op = "record_request"
        /\ th_call.identifier = id
        /\ th_call.status_code \in ThrottleStatus
        /\ th_fed[id].n > Len(request_history[id])
        /\ Head(request_history[id])[1] < th_now
        /\ RateOver(request_history[id])
        /\ id \in DOMAIN paused_identifiers
        /\ paused_identifiers[id][1] = th_now + paused_identifiers[id][2]

-----------------------------------------------------------------------------
(* C36: the expiry of an origin assignment.                                 *)

\* the origins _select_new_proxy can return for key at time t
Selections(key, t) ==
    {SelectNewProxy(proxy_list, key[1], shard, key[2], t, offset) :
        shard \in IPShards \cup {NoShard}, offset \in OffsetDraws(proxy_list)}

\* C36: a get_proxy_for_wallet call for a (subject, traffic class) whose
\* assignment is at least window * (1 + rotation_jitter_pct) old does not
\* return it as a cache hit: it makes a new selection, stores it with
\* assigned_at = now and returns it, a member of the pool; a call for one
\* whose assignment is younger than window * (1 - rotation_jitter_pct)
\* returns the stored origin and leaves the assignment as it is.
C36_OriginExpiry ==
    [][\A key \in WalletKeys :
          (WalletCall(key) /\ key \in DOMAIN traffic_type_proxy)
              => LET age == ip_now - traffic_type_proxy[key][2]
                     window == IF key[2] = "faucet"
                               THEN faucet_ip_sticky_hours
                               ELSE ip_sticky_hours
                 IN  /\ 100 * age >= window * (100 + rotation_jitter_pct)
                            => /\ ip_call'.ret \in Selections(key, ip_now)
                               /\ \E i \in DOMAIN proxy_list :
                                      proxy_list[i] = ip_call'.ret
                               /\ traffic_type_proxy'[key]
                                      = <<ip_call'.ret, ip_now>>
                     /\ 100 * age < window * (100 - rotation_jitter_pct)
                            => /\ ip_call'.ret = traffic_type_proxy[key][1]
                               /\ traffic_type_proxy'[key]
                                      = traffic_type_proxy[key]]_vars

\* a call found an assignment at least window * (1 + rotation_jitter_pct)
\* old and stored a new one, made now
C36_Witness ==
    \E key \in WalletKeys :
        /\ ip_call.op = "get_proxy_for_wallet"
        /\ ip_call.key = key
        /\ ip_call.prior # <<>>
        /\ 100 * (ip_now - ip_call.prior[2])
              >= StickyHours(key[2]) * (100 + rotation_jitter_pct)
        /\ key \in DOMAIN traffic_type_proxy
        /\ traffic_type_proxy[key] = <<ip_call.ret, ip_now>>

-----------------------------------------------------------------------------
(* C37, C38: rotation and independence of the fingerprint assignments.      *)

\* this step is a get_headers call
GetHeadersStep == ua_call'.op = "get_headers" /\ ua_now' = ua_now

\* the call of this step is for identifier, passed as session id or, with
\* no session id, as wallet address
CallFor(identifier) ==
    /\ GetHeadersStep
    /\ \/ ua_call'.args[1] = identifier
       \/ ua_call'.args[1] = None /\ ua_call'.args[2] = identifier

\* C37: the get_headers call that follows rotate(identifier), for that
\* identifier passed as session id or as wallet address, with or without a
\* shard id, returns a fingerprint it stored in this call with assigned-at
\* now, not one that was stored before.
C37_RotateForces ==
    [][\A identifier \in UAIdentifiers :
          (/\ ua_call.op = "rotate"
           /\ ua_call.identifier = identifier
           /\ CallFor(identifier))
              => \E k \in DOMAIN session_ua' :
                    /\ session_ua'[k] = <<ua_call'.ret["User-Agent"], ua_now>>
                    /\ \/ k \notin DOMAIN session_ua
                       \/ session_ua[k][2] + session_duration_hours <= ua_now]_vars

\* what a call for wallet_address without session id reads from session_ua
StoredFor(sessions, wallet_address, shard) ==
    HistoryOf(sessions, UAIdentifier(None, wallet_address, shard))

\* C38: a get_headers call for one wallet address (no session id), with or
\* without a shard id, and a rotate of one wallet address never change the
\* stored assignment a call for a different wallet address reads, with or
\* without a shard id.
C38_PerIdentifier ==
    [][\A a, b \in UAWallets, shard \in IPShards \cup {NoShard} :
          (/\ a # b
           /\ \/ GetHeadersStep /\ ua_call'.args[1] = None /\ ua_call'.args[2] = a
              \/ ua_call'.op = "rotate" /\ ua_call'.identifier = a)
              => StoredFor(session_ua', b, shard)
                    = StoredFor(session_ua, b, shard)]_vars

-----------------------------------------------------------------------------
(* C39: the decision order of should_execute_now.                           *)

\* the window (s, e) covers hour h: s <= h < e when s < e, and h >= s or
\* h < e when it wraps (s > e)
Covers(window, h) ==
    IF window[1] < window[2] THEN window[1] <= h /\ h < window[2]
    ELSE IF window[1] > window[2] THEN h >= window[1] \/ h < window[2]
    ELSE FALSE

\* the current hour lies in a lull window
LullHour == \E window \in lull_windows : Covers(window, sched_now % 24)

\* the weekday is not an off-day, today is not a skip-day of the wallet of
\* the last call, the hour lies in no lull window, and it is Monday-Friday
NothingApplies ==
    /\ (sched_now \div 24) % 7 \notin off_days
    /\ ~ /\ sched_call.wallet_address \in DOMAIN wallet_skip_days
         /\ sched_now \div 24 \in wallet_skip_days[sched_call.wallet_address]
    /\ ~LullHour
    /\ (sched_now \div 24) % 7 \in 0..4

\* C39 as stated: should_execute_now returns true without a random draw
\* whenever no rule applies (no off-day, no skip-day, no lull window, a
\* weekday from Monday to Friday), and makes at most one suppression draw
\* per call.
C39_DecisionOrder ==
    sched_call.op = "should_execute_now"
        => /\ NothingApplies => (sched_call.ret /\ sched_call.draws = 0)
           /\ sched_call.draws <= 1

\* C39 amended: should_execute_now returns true without a random draw
\* whenever no rule applies, and makes at most one suppression draw per lull
\* rule that matches: one for a lull hour and one for a Saturday or Sunday,
\* so two on a weekend lull hour when the first draw does not suppress.
C39_DecisionOrderPerRule ==
    sched_call.op = "should_execute_now"
        => /\ NothingApplies => (sched_call.ret /\ sched_call.draws = 0)
           /\ sched_call.draws
                 <= (IF LullHour THEN 1 ELSE 0)
                    + (IF (sched_now \div 24) % 7 \in {5, 6} THEN 1 ELSE 0)

\* with a window that wraps past midnight, a call for a wallet that has a
\* skip-day on another day, respecting the lulls, at 06:00 or 12:00 of a
\* day from Tuesday to Friday, returned true
C39_Witness ==
    /\ sched_call.op = "should_execute_now"
    /\ lull_windows = {<<18, 6>>}
    /\ sched_call.wallet_address \in DOMAIN wallet_skip_days
    /\ sched_call.respect_lulls
    /\ NothingApplies
    /\ sched_call.ret

====
